---------------------------- MODULE Spec2Model ----------------------------
(***************************************************************************)
(* postit: the board data model (src/src/model.rs) and the operations the  *)
(* command line (src/src/commands.rs) and the TUI (src/src/ui.rs) run on   *)
(* it.  Pure functions of the source are operators that return the new     *)
(* board together with the Result of the call; actions apply them.         *)
(***************************************************************************)
EXTENDS Integers, Sequences, FiniteSets, TLC

VARIABLES
    board,            \* App.board / the Board a command loaded
    selected_column,  \* App.selected_column
    selected_note,    \* App.selected_note
    now,              \* the latest instant Utc::now() returned
    wip_ok0,          \* observer: every limited column was within its limit at load
    field,            \* a FieldValue of the form: value, cursor, and whether it panicked
    scroll,           \* a list pane: selected, offset, viewport and list length
    ui,               \* the other fields of App: mode, form, view, status, ...
    out               \* the command that ran last and the Result it returned

\* the part of the state that the operations on the board do not touch
view_vars == <<field, scroll, ui>>

vars == <<board, selected_column, selected_note, now, wip_ok0, out, view_vars>>

---------------------------------------------------------------------------
\* Bounds of the model.

\* Utc::now() returns instants 0..MaxTime.
MaxTime == 1

\* add_note inserts no note once the columns hold MaxPlaced ids in total.
MaxPlaced == 2

\* The note ids of the model.
NoteIds == {"n1", "n2", "n3"}

\* generate_id() draws 6 random alphanumerics and checks nothing against the
\* ids already on the board: the draw is any of these, on the board or not.
GeneratedIds == {"n1", "n2"}

\* A String of the program is the sequence of its characters, each a
\* one-character string.  Two titles of the commands:
T1 == <<"t", "1">>

T2 == <<"t", "2">>

Titles == {T1, T2}

\* Column ids a caller can name; "waiting" is missing from the loaded boards.
ColumnIds == {"todo", "doing", "waiting", "done"}

---------------------------------------------------------------------------
\* Option and integer encodings.

\* Column.wip_limit: Option<u32> = None
NoLimit == -1

\* Option<T> of Note.body and Note.due: None, and Some(x)
None == <<>>

Some(x) == <<x>>

\* Vec::new() of Note.tags
NoTags == <<>>

\* Option<usize> = None for the 1-based column indices of the model
NoIndex == 0

\* `note_ids.len() as u32`: the lengths of the model stay far below 2^32,
\* where the cast changes nothing.
AsU32(n) == n

---------------------------------------------------------------------------
\* Sequence helpers (Vec::retain, Iterator::any, Iterator::position).

RECURSIVE retain(_, _)
retain(s, x) ==
    IF s = <<>> THEN <<>>
    ELSE IF Head(s) = x THEN retain(Tail(s), x)
    ELSE <<Head(s)>> \o retain(Tail(s), x)

any(s, x) == \E k \in 1..Len(s) : s[k] = x

Min(S) == CHOOSE m \in S : \A o \in S : m <= o

position(S) == IF S = {} THEN NoIndex ELSE Min(S)

\* usize::saturating_sub; saturating_add never saturates on the lengths of
\* the model, which stay far below usize::MAX
saturating_sub(a, b) == IF a > b THEN a - b ELSE 0

min(a, b) == IF a <= b THEN a ELSE b

\* a `let` binding: the value x is computed once and named in F
With(x, F(_)) == F(x)

---------------------------------------------------------------------------
\* model.rs

Column(id, wip_limit, note_ids) ==
    [id |-> id, wip_limit |-> wip_limit, note_ids |-> note_ids]

Note_new(id, title, body, tags, due, t) ==
    [id |-> id, title |-> title, body |-> body, tags |-> tags,
     created_at |-> t, updated_at |-> t, due |-> due]

EmptyNotes == [k \in {} |-> Note_new("n1", T1, None, NoTags, None, 0)]

default_named ==
    [columns |-> << Column("todo", NoLimit, <<>>),
                    Column("doing", NoLimit, <<>>),
                    Column("waiting", NoLimit, <<>>),
                    Column("done", NoLimit, <<>>) >>,
     notes |-> EmptyNotes]

\* faulty variant: rposition, the last column with the id instead of the first
find_column_index_last(b, id) ==
    LET S == {i \in 1..Len(b.columns) : b.columns[i].id = id} IN
    IF S = {} THEN NoIndex ELSE CHOOSE m \in S : \A o \in S : o <= m

find_column_index(b, id) ==
    position({i \in 1..Len(b.columns) : b.columns[i].id = id})

find_note_column_index(b, note_id) ==
    position({i \in 1..Len(b.columns) : any(b.columns[i].note_ids, note_id)})

\* faulty variant: `>` for `>=`, one note more than the limit is let in
ensure_wip_off_by_one(b, column_idx) ==
    IF b.columns[column_idx].wip_limit # NoLimit
       /\ AsU32(Len(b.columns[column_idx].note_ids)) > b.columns[column_idx].wip_limit
    THEN "WipLimitReached"
    ELSE "Ok"

ensure_wip(b, column_idx) ==
    IF b.columns[column_idx].wip_limit # NoLimit
       /\ AsU32(Len(b.columns[column_idx].note_ids)) >= b.columns[column_idx].wip_limit
    THEN "WipLimitReached"
    ELSE "Ok"

insert(notes, id, note) ==
    [k \in (DOMAIN notes) \cup {id} |-> IF k = id THEN note ELSE notes[k]]

remove(notes, id) ==
    [k \in (DOMAIN notes) \ {id} |-> notes[k]]

\* faulty variant: the note is put into the mapping before the limit is checked
add_note_insert_first(b, note, column_id) ==
    LET target_idx == find_column_index(b, column_id)
        stored == [b EXCEPT !.notes = insert(@, note.id, note)] IN
    IF target_idx = NoIndex THEN [board |-> b, result |-> "ColumnNotFound"]
    ELSE IF ensure_wip(b, target_idx) # "Ok"
    THEN [board |-> stored, result |-> "WipLimitReached"]
    ELSE [board |-> [stored EXCEPT
                        !.columns[target_idx].note_ids = Append(@, note.id)],
          result |-> "Ok"]

add_note(b, note, column_id) ==
    LET target_idx == find_column_index(b, column_id) IN
    IF target_idx = NoIndex THEN [board |-> b, result |-> "ColumnNotFound"]
    ELSE IF ensure_wip(b, target_idx) # "Ok"
    THEN [board |-> b, result |-> "WipLimitReached"]
    ELSE [board |-> [b EXCEPT
                        !.notes = insert(@, note.id, note),
                        !.columns[target_idx].note_ids = Append(@, note.id)],
          result |-> "Ok"]

\* The closures handed to update_note: touch's |_| {}, a rewrite of the title
\* (commands::edit) and the rewrite of the four fields of the form
\* (App::edit_note_from_form).
Noop == [kind |-> "noop"]

Retitle == [kind |-> "retitle"]

Rewrite(title, body, tags, due) ==
    [kind |-> "rewrite", title |-> title, body |-> body, tags |-> tags, due |-> due]

\* the closure of commands::edit: the options that were given
Patch(title, body, tags, clear_tags, due, clear_due) ==
    [kind |-> "patch", title |-> title, body |-> body, tags |-> tags,
     clear_tags |-> clear_tags, due |-> due, clear_due |-> clear_due]

Mutators == {Noop, Retitle}

Apply(f, note) ==
    CASE f.kind = "noop" -> note
      [] f.kind = "retitle" -> [note EXCEPT !.title = T2]
      [] f.kind = "rewrite" ->
            [note EXCEPT !.title = f.title, !.body = f.body,
                         !.tags = f.tags, !.due = f.due]
      [] f.kind = "patch" ->
            [note EXCEPT
                !.title = IF f.title # None THEN f.title[1] ELSE @,
                !.body = IF f.body # None THEN f.body ELSE @,
                !.tags = IF f.tags # <<>> THEN f.tags
                         ELSE IF f.clear_tags THEN <<>> ELSE @,
                !.due = IF f.due # None THEN f.due
                        ELSE IF f.clear_due THEN None ELSE @]

\* faulty variant: updated_at is refreshed only when the closure changed the note
update_note_if_changed(b, note_id, f, t) ==
    IF note_id \notin DOMAIN b.notes
    THEN [board |-> b, result |-> "NoteNotFound"]
    ELSE [board |-> [b EXCEPT !.notes[note_id] =
                        IF Apply(f, @) = @ THEN @
                        ELSE [Apply(f, @) EXCEPT !.updated_at = t]],
          result |-> "Ok"]

update_note(b, note_id, f, t) ==
    IF note_id \notin DOMAIN b.notes
    THEN [board |-> b, result |-> "NoteNotFound"]
    ELSE [board |-> [b EXCEPT !.notes[note_id] =
                        [Apply(f, @) EXCEPT !.updated_at = t]],
          result |-> "Ok"]

\* faulty variant: the move forgets to stamp the note
touch_forgotten(b, note_id, t) == [board |-> b, result |-> "Ok"]

touch(b, note_id, t) == update_note(b, note_id, Noop, t)

\* faulty variant: the destination is looked up before the note
move_note_column_first(b, note_id, dest_column_id, t) ==
    LET dest_idx == find_column_index(b, dest_column_id)
        src_idx == find_note_column_index(b, note_id) IN
    IF dest_idx = NoIndex THEN [board |-> b, result |-> "ColumnNotFound"]
    ELSE IF note_id \notin DOMAIN b.notes
    THEN [board |-> b, result |-> "NoteNotFound"]
    ELSE IF src_idx = NoIndex THEN [board |-> b, result |-> "NoteLocationMissing"]
    ELSE IF src_idx = dest_idx THEN [board |-> b, result |-> "Ok"]
    ELSE IF ensure_wip(b, dest_idx) # "Ok"
    THEN [board |-> b, result |-> "WipLimitReached"]
    ELSE
    LET moved == [b EXCEPT
                    !.columns[src_idx].note_ids = retain(@, note_id),
                    !.columns[dest_idx].note_ids = Append(@, note_id)] IN
    touch(moved, note_id, t)

\* faulty variant: the limit of the destination is checked before source and
\* destination are compared
move_note_wip_first(b, note_id, dest_column_id, t) ==
    IF note_id \notin DOMAIN b.notes
    THEN [board |-> b, result |-> "NoteNotFound"]
    ELSE
    LET dest_idx == find_column_index(b, dest_column_id)
        src_idx == find_note_column_index(b, note_id) IN
    IF dest_idx = NoIndex THEN [board |-> b, result |-> "ColumnNotFound"]
    ELSE IF src_idx = NoIndex THEN [board |-> b, result |-> "NoteLocationMissing"]
    ELSE IF ensure_wip(b, dest_idx) # "Ok"
    THEN [board |-> b, result |-> "WipLimitReached"]
    ELSE IF src_idx = dest_idx THEN [board |-> b, result |-> "Ok"]
    ELSE
    LET moved == [b EXCEPT
                    !.columns[src_idx].note_ids = retain(@, note_id),
                    !.columns[dest_idx].note_ids = Append(@, note_id)] IN
    touch(moved, note_id, t)

\* Vec::swap_remove of the first occurrence: the last element fills the gap
swap_remove(s, x) ==
    LET k == Min({i \in 1..Len(s) : s[i] = x}) IN
    IF k = Len(s) THEN SubSeq(s, 1, Len(s) - 1)
    ELSE [i \in 1..(Len(s) - 1) |-> IF i = k THEN s[Len(s)] ELSE s[i]]

\* faulty variant: swap_remove for retain, the order of the source is not kept
move_note_swap_remove(b, note_id, dest_column_id, t) ==
    IF note_id \notin DOMAIN b.notes
    THEN [board |-> b, result |-> "NoteNotFound"]
    ELSE
    LET dest_idx == find_column_index(b, dest_column_id)
        src_idx == find_note_column_index(b, note_id) IN
    IF dest_idx = NoIndex THEN [board |-> b, result |-> "ColumnNotFound"]
    ELSE IF src_idx = NoIndex THEN [board |-> b, result |-> "NoteLocationMissing"]
    ELSE IF src_idx = dest_idx THEN [board |-> b, result |-> "Ok"]
    ELSE IF ensure_wip(b, dest_idx) # "Ok"
    THEN [board |-> b, result |-> "WipLimitReached"]
    ELSE
    LET moved == [b EXCEPT
                    !.columns[src_idx].note_ids = swap_remove(@, note_id),
                    !.columns[dest_idx].note_ids = Append(@, note_id)] IN
    touch(moved, note_id, t)

move_note(b, note_id, dest_column_id, t) ==
    IF note_id \notin DOMAIN b.notes
    THEN [board |-> b, result |-> "NoteNotFound"]
    ELSE
    LET dest_idx == find_column_index(b, dest_column_id)
        src_idx == find_note_column_index(b, note_id) IN
    IF dest_idx = NoIndex THEN [board |-> b, result |-> "ColumnNotFound"]
    ELSE IF src_idx = NoIndex THEN [board |-> b, result |-> "NoteLocationMissing"]
    ELSE IF src_idx = dest_idx THEN [board |-> b, result |-> "Ok"]
    ELSE IF ensure_wip(b, dest_idx) # "Ok"
    THEN [board |-> b, result |-> "WipLimitReached"]
    ELSE
    LET moved == [b EXCEPT
                    !.columns[src_idx].note_ids = retain(@, note_id),
                    !.columns[dest_idx].note_ids = Append(@, note_id)] IN
    touch(moved, note_id, t)

---------------------------------------------------------------------------
\* ui.rs

\* App::delete_note on (board, selected_note): the new board, the new
\* selected_note and the Result.
delete_note(b, sel_note, note_id) ==
    LET col_idx == find_note_column_index(b, note_id) IN
    IF col_idx = NoIndex
    THEN [board |-> b, selected_note |-> sel_note, result |-> "Err"]
    ELSE
    LET kept == retain(b.columns[col_idx].note_ids, note_id)
        saturating_len == IF Len(kept) = 0 THEN 0 ELSE Len(kept) - 1 IN
    [board |-> [b EXCEPT !.columns[col_idx].note_ids = kept,
                         !.notes = remove(@, note_id)],
     selected_note |-> IF sel_note < saturating_len THEN sel_note ELSE saturating_len,
     result |-> "Ok"]

---------------------------------------------------------------------------
\* ui.rs: strings, their UTF-8 byte offsets, and the field editor.

\* The characters a key can insert: one, two and three bytes wide, and the
\* line break.
Chars == {"a", "\n", "é", "€"}

\* The 16 characters "YYYY.MM.DD@hh:mm" of minute m, m = 0, 1, 2, are one
\* unit of a text: they are typed and erased together.
DateTexts == <<"D0", "D1", "D2">>

IsDateText(ch) == \E m \in 1..Len(DateTexts) : DateTexts[m] = ch

\* char::len_utf8
len_utf8(ch) ==
    CASE ch = "é" -> 2
      [] ch = "€" -> 3
      [] IsDateText(ch) -> 16
      [] OTHER -> 1

\* str::len: the length in bytes
RECURSIVE len(_)
len(text) == IF text = <<>> THEN 0 ELSE len_utf8(Head(text)) + len(Tail(text))

\* the byte offset at which the k-th character starts (k = Len + 1: the end)
byte_of(text, k) == len(SubSeq(text, 1, k - 1))

\* str::char_indices: the byte offset of every character, in order
char_indices(text) == [k \in 1..Len(text) |-> byte_of(text, k)]

\* str::is_char_boundary
is_char_boundary(text, i) == \E k \in 1..(Len(text) + 1) : byte_of(text, k) = i

\* the number of characters that start before byte offset i
chars_before(text, i) == Cardinality({k \in 1..Len(text) : byte_of(text, k) < i})

\* String::insert; it panics when idx is not a character boundary
String_insert(text, idx, ch) ==
    IF ~is_char_boundary(text, idx) THEN [panic |-> TRUE, value |-> text]
    ELSE LET k == chars_before(text, idx) IN
         [panic |-> FALSE,
          value |-> SubSeq(text, 1, k) \o <<ch>> \o SubSeq(text, k + 1, Len(text))]

\* String::drain(from..to); it panics when a bound is not a character
\* boundary or from > to
String_drain(text, from, to) ==
    IF from > to \/ ~is_char_boundary(text, from) \/ ~is_char_boundary(text, to)
    THEN [panic |-> TRUE, value |-> text]
    ELSE [panic |-> FALSE,
          value |-> SubSeq(text, 1, chars_before(text, from))
                    \o SubSeq(text, chars_before(text, to) + 1, Len(text))]

\* faulty variant: one byte back instead of one character back
prev_grapheme_byte(cursor, text) == IF cursor = 0 THEN 0 ELSE cursor - 1

\* the last character offset before the cursor, 0 when there is none
prev_grapheme(cursor, text) ==
    IF cursor = 0 THEN 0
    ELSE LET before == {k \in 1..Len(text) : char_indices(text)[k] < cursor} IN
         IF before = {} THEN 0
         ELSE char_indices(text)[CHOOSE k \in before : \A o \in before : o <= k]

\* the first character at or after the cursor decides: the offset after it
\* when it starts at the cursor, its own offset when it starts later
next_grapheme(cursor, text) ==
    LET from == {k \in 1..Len(text) : char_indices(text)[k] >= cursor} IN
    IF from = {} THEN len(text)
    ELSE LET k == Min(from) IN
         IF char_indices(text)[k] > cursor THEN char_indices(text)[k]
         ELSE cursor + len_utf8(text[k])

\* the byte offsets at which the lines start
line_starts(text) ==
    LET RECURSIVE scan(_)
        scan(k) ==
            IF k > Len(text) THEN <<>>
            ELSE IF text[k] = "\n" THEN <<byte_of(text, k) + 1>> \o scan(k + 1)
            ELSE scan(k + 1)
    IN <<0>> \o scan(1)

start_of_line(line_idx, starts) ==
    IF line_idx + 1 \in 1..Len(starts) THEN starts[line_idx + 1] ELSE 0

\* line_state: the line starts, the 0-based line of the cursor and its 0-based
\* column in characters; slicing text[start..cursor] panics off a boundary
line_state(text, cursor) ==
    LET starts == line_starts(text)
        line_idx == Cardinality({i \in 1..Len(starts) :
                        \A j \in 1..i : starts[j] <= cursor}) - 1
        from == start_of_line(line_idx, starts)
    IN [panic |-> ~is_char_boundary(text, cursor) \/ cursor > len(text),
        starts |-> starts,
        line_idx |-> line_idx,
        col |-> chars_before(text, cursor) - chars_before(text, from)]

\* faulty variant: the column is counted in bytes instead of characters
index_at_col_bytes(text, start, target_col) ==
    LET first == chars_before(text, start) + 1
        breaks == {k \in first..Len(text) : text[k] = "\n"}
        end == IF breaks = {} THEN Len(text) + 1 ELSE Min(breaks)
    IN  min(start + target_col, byte_of(text, end))

\* index_at_col: the byte offset of column target_col of the line that starts
\* at `start`, the end of that line when it is shorter
index_at_col(text, start, target_col) ==
    LET first == chars_before(text, start) + 1
        breaks == {k \in first..Len(text) : text[k] = "\n"}
        end == IF breaks = {} THEN Len(text) + 1 ELSE Min(breaks)
    IN  IF first + target_col < end THEN byte_of(text, first + target_col)
        ELSE byte_of(text, end)

FieldValue_new(value) == [value |-> value, cursor |-> len(value), panic |-> FALSE]

move_left(fv) ==
    IF fv.cursor = 0 THEN fv
    ELSE [fv EXCEPT !.cursor = prev_grapheme(fv.cursor, fv.value)]

move_right(fv) ==
    IF fv.cursor >= len(fv.value) THEN fv
    ELSE [fv EXCEPT !.cursor = next_grapheme(fv.cursor, fv.value)]

\* faulty variant: the cursor goes to the start of the line above
move_up_start(fv) ==
    LET st == line_state(fv.value, fv.cursor) IN
    IF st.panic THEN [fv EXCEPT !.panic = TRUE]
    ELSE IF st.line_idx = 0 THEN fv
    ELSE [fv EXCEPT !.cursor = st.starts[st.line_idx]]

move_up(fv) ==
    LET st == line_state(fv.value, fv.cursor) IN
    IF st.panic THEN [fv EXCEPT !.panic = TRUE]
    ELSE IF st.line_idx = 0 THEN fv
    ELSE [fv EXCEPT !.cursor = index_at_col(fv.value, st.starts[st.line_idx], st.col)]

move_down(fv) ==
    LET st == line_state(fv.value, fv.cursor) IN
    IF st.panic THEN [fv EXCEPT !.panic = TRUE]
    ELSE IF st.line_idx + 1 >= Len(st.starts) THEN fv
    ELSE [fv EXCEPT !.cursor = index_at_col(fv.value, st.starts[st.line_idx + 2], st.col)]

backspace(fv) ==
    IF fv.cursor = 0 THEN fv
    ELSE LET prev == prev_grapheme(fv.cursor, fv.value)
             d == String_drain(fv.value, prev, fv.cursor)
         IN IF d.panic THEN [fv EXCEPT !.panic = TRUE]
            ELSE [fv EXCEPT !.value = d.value, !.cursor = prev]

insert_char(fv, ch) ==
    LET i == String_insert(fv.value, fv.cursor, ch) IN
    IF i.panic THEN [fv EXCEPT !.panic = TRUE]
    ELSE [fv EXCEPT !.value = i.value, !.cursor = fv.cursor + len_utf8(ch)]

---------------------------------------------------------------------------
\* ui.rs: what the form and the views do with strings.

\* char::is_whitespace
is_whitespace(ch) == ch \in {" ", "\n"}

\* str::trim
RECURSIVE trim_start(_)
trim_start(text) ==
    IF text # <<>> /\ is_whitespace(Head(text)) THEN trim_start(Tail(text)) ELSE text

RECURSIVE trim_end(_)
trim_end(text) ==
    IF text # <<>> /\ is_whitespace(text[Len(text)])
    THEN trim_end(SubSeq(text, 1, Len(text) - 1))
    ELSE text

trim(text) == trim_end(trim_start(text))

\* str::to_lowercase, character by character
to_lowercase(text) ==
    [k \in 1..Len(text) |-> IF text[k] = "X" THEN "x"
                            ELSE IF text[k] = "A" THEN "a"
                            ELSE text[k]]

\* The order of the characters (their code points, times 100 so that a date
\* unit sorts like its first character '2' followed by more characters).
code_point(ch) ==
    CASE ch = "\n" -> 1000
      [] ch = " " -> 3200
      [] ch = "(untagged)" -> 4000
      [] ch = "," -> 4400
      [] ch = "1" -> 4900
      [] ch = "2" -> 5000
      [] ch = "D0" -> 5001
      [] ch = "D1" -> 5002
      [] ch = "D2" -> 5003
      [] ch = "3" -> 5100
      [] ch = "<" -> 6000
      [] ch = ">" -> 6200
      [] ch = "A" -> 6500
      [] ch = "X" -> 8800
      [] ch = "a" -> 9700
      [] ch = "b" -> 9800
      [] ch = "d" -> 10000
      [] ch = "e" -> 10100
      [] ch = "h" -> 10400
      [] ch = "j" -> 10600
      [] ch = "k" -> 10700
      [] ch = "l" -> 10800
      [] ch = "m" -> 10900
      [] ch = "n" -> 11000
      [] ch = "q" -> 11300
      [] ch = "t" -> 11600
      [] ch = "x" -> 12000
      [] ch = "y" -> 12100
      [] ch = "é" -> 23300
      [] ch = "€" -> 836400

\* Ord for String: lexicographic in the characters
RECURSIVE text_less(_, _)
text_less(s, t) ==
    IF t = <<>> THEN FALSE
    ELSE IF s = <<>> THEN TRUE
    ELSE IF Head(s) = Head(t) THEN text_less(Tail(s), Tail(t))
    ELSE code_point(Head(s)) < code_point(Head(t))

\* Ord for the sort keys (instant, lowercase title)
key_less(k1, k2) ==
    \/ k1[1] < k2[1]
    \/ k1[1] = k2[1] /\ text_less(k1[2], k2[2])

\* slice::sort_by_key, a stable sort: an element goes behind the elements
\* whose key is not greater; key is the function from the items to their keys
RECURSIVE sort_by_key(_, _)
sort_by_key(items, key) ==
    IF items = <<>> THEN <<>>
    ELSE LET sorted == sort_by_key(SubSeq(items, 1, Len(items) - 1), key)
             x == items[Len(items)]
             n == Cardinality({k \in 1..Len(sorted) : ~key_less(key[x], key[sorted[k]])})
         IN SubSeq(sorted, 1, n) \o <<x>> \o SubSeq(sorted, n + 1, Len(sorted))

\* parse_tags: split at whitespace and commas, drop the empty pieces
parse_tags(input) ==
    LET is_sep(ch) == is_whitespace(ch) \/ ch = ","
        RECURSIVE split(_, _)
        split(rest, piece) ==
            IF rest = <<>> THEN <<piece>>
            ELSE IF is_sep(Head(rest)) THEN <<piece>> \o split(Tail(rest), <<>>)
            ELSE split(Tail(rest), Append(piece, Head(rest)))
    IN SelectSeq(split(input, <<>>), LAMBDA piece : trim(piece) # <<>>)

\* [String]::join(" ")
RECURSIVE join(_)
join(tags) ==
    IF tags = <<>> THEN <<>>
    ELSE IF Len(tags) = 1 THEN tags[1]
    ELSE tags[1] \o <<" ">> \o join(Tail(tags))

\* An instant is a number of seconds; a minute has SecondsPerMinute of them
\* and a day MinutesPerDay minutes.
SecondsPerMinute == 2

MinutesPerDay == 2

\* DateTime::date_naive
date_naive(d) == d \div (SecondsPerMinute * MinutesPerDay)

\* format_due: "%Y.%m.%d@%H:%M" writes the minute and drops the seconds
format_due(d) == <<DateTexts[(d \div SecondsPerMinute) + 1]>>

\* parse_due_string: Ok(None) for a blank input, Ok(Some) for the text of a
\* minute, Err for anything else
parse_due_string(input) ==
    LET trimmed == trim(input) IN
    IF trimmed = <<>> THEN [ok |-> TRUE, due |-> None]
    ELSE IF Len(trimmed) = 1 /\ IsDateText(trimmed[1])
    THEN [ok |-> TRUE,
          due |-> Some(((CHOOSE m \in 1..Len(DateTexts) : DateTexts[m] = trimmed[1]) - 1)
                        * SecondsPerMinute)]
    ELSE [ok |-> FALSE, due |-> None]

---------------------------------------------------------------------------
\* ui.rs: the viewport scroller.

\* faulty variant: the new offset is not clamped to the end of the list
adjust_offset_unclamped(selected, current_offset, viewport, scrolloff, length) ==
    IF viewport = 0 \/ length = 0 THEN 0
    ELSE
    LET max_offset == saturating_sub(length, viewport)
        margin == min(scrolloff, saturating_sub(viewport, 1))
        offset == min(current_offset, max_offset)
        upper == saturating_sub(offset + saturating_sub(viewport, 1), margin)
    IN  IF selected < offset + margin THEN saturating_sub(selected, margin)
        ELSE IF selected > upper
             THEN saturating_sub(selected + (margin + 1), viewport)
             ELSE offset

\* faulty variant: the margin is not reduced in a pane of one row
adjust_offset_margin(selected, current_offset, viewport, scrolloff, length) ==
    IF viewport = 0 \/ length = 0 THEN 0
    ELSE
    LET max_offset == saturating_sub(length, viewport)
        margin == scrolloff
        offset == min(current_offset, max_offset)
        upper == saturating_sub(offset + saturating_sub(viewport, 1), margin)
        moved ==
            IF selected < offset + margin THEN saturating_sub(selected, margin)
            ELSE IF selected > upper
                 THEN saturating_sub(selected + (margin + 1), viewport)
                 ELSE offset
    IN min(moved, max_offset)

adjust_offset(selected, current_offset, viewport, scrolloff, length) ==
    IF viewport = 0 \/ length = 0 THEN 0
    ELSE
    LET max_offset == saturating_sub(length, viewport)
        margin == min(scrolloff, saturating_sub(viewport, 1))
        offset == min(current_offset, max_offset)
        upper == saturating_sub(offset + saturating_sub(viewport, 1), margin)
        moved ==
            IF selected < offset + margin THEN saturating_sub(selected, margin)
            ELSE IF selected > upper
                 THEN saturating_sub(selected + (margin + 1), viewport)
                 ELSE offset
    IN min(moved, max_offset)

---------------------------------------------------------------------------
\* ui.rs: the application state and its views.
\*
\* An App is the record of the fields of struct App that the key handlers
\* read: board, selected_column, selected_note, status, mode (with the
\* note_id and the form of the mode), view, timeline and project, together
\* with `now` (the last reading of the clock), `exit` ("" while the event loop
\* runs, "quit" after Ok(true), "error" after an Err left handle_key, "panic"
\* after a panic), `saved`, the boards handed to save_board by the last key,
\* and `saves`, the number of calls of save_board so far.  The scroll offsets are written by draw alone and read by no handler;
\* they are the pane of the scroller above.

NoId == ""

NoForm == <<>>

NoteForm_new ==
    [title |-> FieldValue_new(<<>>), body |-> FieldValue_new(<<>>),
     tags |-> FieldValue_new(<<>>), due |-> FieldValue_new(<<>>),
     field |-> "Title"]

NoteForm_from_note(note) ==
    [title |-> FieldValue_new(note.title),
     body |-> FieldValue_new(IF note.body = None THEN <<>> ELSE note.body[1]),
     tags |-> FieldValue_new(join(note.tags)),
     due |-> FieldValue_new(IF note.due = None THEN <<>> ELSE format_due(note.due[1])),
     field |-> "Title"]

\* faulty variant: the focus stops at the last field
next_field_stops(form) ==
    [form EXCEPT !.field =
        CASE @ = "Title" -> "Body" [] @ = "Body" -> "Tags"
          [] @ = "Tags" -> "Due" [] @ = "Due" -> "Due"]

next_field(form) ==
    [form EXCEPT !.field =
        CASE @ = "Title" -> "Body" [] @ = "Body" -> "Tags"
          [] @ = "Tags" -> "Due" [] @ = "Due" -> "Title"]

prev_field(form) ==
    [form EXCEPT !.field =
        CASE @ = "Title" -> "Due" [] @ = "Body" -> "Title"
          [] @ = "Tags" -> "Body" [] @ = "Due" -> "Tags"]

active_field(form) ==
    CASE form.field = "Title" -> form.title
      [] form.field = "Body" -> form.body
      [] form.field = "Tags" -> form.tags
      [] form.field = "Due" -> form.due

\* what `*form.active_field_mut() = fv` does
with_active_field(form, fv) ==
    CASE form.field = "Title" -> [form EXCEPT !.title = fv]
      [] form.field = "Body" -> [form EXCEPT !.body = fv]
      [] form.field = "Tags" -> [form EXCEPT !.tags = fv]
      [] form.field = "Due" -> [form EXCEPT !.due = fv]

\* Vec::get on the 0-based index i: the 1-based position, NoIndex for None
get(s, i) == IF 0 <= i /\ i < Len(s) THEN i + 1 ELSE NoIndex

\* The orders in which a HashMap can iterate over the notes.
RECURSIVE orders_of(_)
orders_of(ids) ==
    IF ids = {} THEN {<<>>}
    ELSE UNION {{<<id>> \o rest : rest \in orders_of(ids \ {id})} : id \in ids}

Orders(b) == orders_of(DOMAIN b.notes)

\* faulty variant: the titles are compared as they are written
timeline_lists_cased(b, order) ==
    LET unassigned == SelectSeq(order, LAMBDA id : b.notes[id].due = None)
        assigned == SelectSeq(order, LAMBDA id : b.notes[id].due # None)
    IN [unassigned |-> sort_by_key(unassigned,
            [id \in DOMAIN b.notes |-> <<b.notes[id].created_at, b.notes[id].title>>]),
        assigned |-> sort_by_key(assigned,
            [id \in DOMAIN b.notes |->
                <<IF b.notes[id].due = None THEN 0 ELSE b.notes[id].due[1],
                  b.notes[id].title>>])]

\* timeline_lists: the ids of the notes without and with a due instant, each
\* list sorted; `order` is the order in which the HashMap iterates
timeline_lists(b, order) ==
    LET unassigned == SelectSeq(order, LAMBDA id : b.notes[id].due = None)
        assigned == SelectSeq(order, LAMBDA id : b.notes[id].due # None)
    IN [unassigned |-> sort_by_key(unassigned,
            [id \in DOMAIN b.notes |->
                <<b.notes[id].created_at, to_lowercase(b.notes[id].title)>>]),
        assigned |-> sort_by_key(assigned,
            [id \in DOMAIN b.notes |->
                <<IF b.notes[id].due = None THEN 0 ELSE b.notes[id].due[1],
                  to_lowercase(b.notes[id].title)>>])]

\* the bucket of the notes without tags
Untagged == <<"(untagged)">>

\* the keys of the BTreeMap of project_tags
bucket_keys(b) ==
    UNION {IF b.notes[id].tags = <<>> THEN {Untagged}
           ELSE {b.notes[id].tags[k] : k \in 1..Len(b.notes[id].tags)} :
           id \in DOMAIN b.notes}

\* BTreeMap iteration: the keys in ascending order
RECURSIVE ascending(_)
ascending(S) ==
    IF S = {} THEN <<>>
    ELSE LET first == CHOOSE x \in S : \A y \in S \ {x} : text_less(x, y)
         IN <<first>> \o ascending(S \ {first})

\* the pushes into the bucket of `tag` while the notes are iterated in `order`
RECURSIVE pushes(_, _, _)
pushes(b, tag, order) ==
    IF order = <<>> THEN <<>>
    ELSE LET id == Head(order)
             tags == b.notes[id].tags
             times == IF tags = <<>> THEN (IF tag = Untagged THEN 1 ELSE 0)
                      ELSE Cardinality({k \in 1..Len(tags) : tags[k] = tag})
         IN [k \in 1..times |-> id] \o pushes(b, tag, Tail(order))

\* project_tags: the buckets in the order of their tags, each sorted
project_tags(b, order) ==
    LET keys == ascending(bucket_keys(b)) IN
    [i \in 1..Len(keys) |->
        [tag |-> keys[i],
         notes |-> sort_by_key(pushes(b, keys[i], order),
            [id \in DOMAIN b.notes |->
                <<b.notes[id].updated_at, to_lowercase(b.notes[id].title)>>])]]

\* some order of iteration, where only the lengths of the lists are used
RECURSIVE listed(_)
listed(ids) ==
    IF ids = {} THEN <<>>
    ELSE LET id == CHOOSE x \in ids : TRUE IN <<id>> \o listed(ids \ {id})

some_order(b) == listed(DOMAIN b.notes)

\* The option of a note id: current_note returns the id, NoId for None.
current_board_note(a) ==
    LET c == get(a.board.columns, a.selected_column) IN
    IF c = NoIndex THEN NoId
    ELSE LET n == get(a.board.columns[c].note_ids, a.selected_note) IN
         IF n = NoIndex THEN NoId
         ELSE IF a.board.columns[c].note_ids[n] \notin DOMAIN a.board.notes THEN NoId
         ELSE a.board.columns[c].note_ids[n]

current_timeline_note(a, order) ==
    LET idx == IF a.timeline.focus = "Unassigned" THEN a.timeline.unassigned_idx
               ELSE a.timeline.assigned_idx
    IN  IF a.timeline.focus = "Calendar" THEN NoId
        ELSE With(timeline_lists(a.board, order), LAMBDA lists :
             With(IF a.timeline.focus = "Unassigned" THEN lists.unassigned
                  ELSE lists.assigned, LAMBDA list :
                IF get(list, idx) = NoIndex THEN NoId
                ELSE list[get(list, idx)]))

\* faulty variant: the focus of the Project view is not consulted
current_project_note_any_focus(a, order) ==
    With(project_tags(a.board, order), LAMBDA tags :
        LET t == get(tags, a.project.tag_idx) IN
        IF t = NoIndex THEN NoId
        ELSE IF get(tags[t].notes, a.project.note_idx) = NoIndex THEN NoId
        ELSE tags[t].notes[get(tags[t].notes, a.project.note_idx)])

current_project_note(a, order) ==
    IF a.project.focus # "Notes" THEN NoId
    ELSE With(project_tags(a.board, order), LAMBDA tags :
            LET t == get(tags, a.project.tag_idx) IN
            IF t = NoIndex THEN NoId
            ELSE IF get(tags[t].notes, a.project.note_idx) = NoIndex THEN NoId
            ELSE tags[t].notes[get(tags[t].notes, a.project.note_idx)])

current_note(a, order) ==
    CASE a.view = "Board" -> current_board_note(a)
      [] a.view = "Timeline" -> current_timeline_note(a, order)
      [] a.view = "Project" -> current_project_note(a, order)

current_column_id(a) ==
    IF get(a.board.columns, a.selected_column) = NoIndex THEN NoId
    ELSE a.board.columns[get(a.board.columns, a.selected_column)].id

\* faulty variant: the first note of the assigned list, whatever its date
first_due_on_cursor_any(a, order) ==
    IF timeline_lists(a.board, order).assigned = <<>> THEN -1 ELSE 0

\* first_due_on_cursor: the 0-based index in the assigned list, -1 for None
first_due_on_cursor(a, order) ==
    With(timeline_lists(a.board, order).assigned, LAMBDA assigned :
    With({k \in 1..Len(assigned) :
            date_naive(a.board.notes[assigned[k]].due[1]) = a.timeline.calendar_cursor},
         LAMBDA hits : IF hits = {} THEN -1 ELSE Min(hits) - 1))

ensure_timeline_bounds(a) ==
    With(timeline_lists(a.board, some_order(a.board)), LAMBDA lists :
    LET unassigned_len == Len(lists.unassigned)
        assigned_len == Len(lists.assigned)
    IN [a EXCEPT
          !.timeline.unassigned_idx =
              IF unassigned_len = 0 THEN 0 ELSE min(@, saturating_sub(unassigned_len, 1)),
          !.timeline.assigned_idx =
              IF assigned_len = 0 THEN 0 ELSE min(@, saturating_sub(assigned_len, 1))])

ensure_project_bounds(a) ==
    With(project_tags(a.board, some_order(a.board)), LAMBDA tags :
    LET tag_count == Len(tags)
        tag_idx == min(a.project.tag_idx, saturating_sub(tag_count, 1))
        note_len == IF get(tags, tag_idx) = NoIndex THEN 0
                    ELSE Len(tags[get(tags, tag_idx)].notes)
    IN  IF tag_count = 0
        THEN [a EXCEPT !.project = [focus |-> "Tags", tag_idx |-> 0, note_idx |-> 0]]
        ELSE [a EXCEPT
                !.project.tag_idx = tag_idx,
                !.project.focus = IF note_len = 0 /\ @ = "Notes" THEN "Tags" ELSE @,
                !.project.note_idx =
                    IF note_len = 0 THEN 0 ELSE min(@, saturating_sub(note_len, 1))])

\* faulty variant: the status is set and save_board is not called
persist_unsaved(a, message, save_ok) ==
    [app |-> ensure_project_bounds(ensure_timeline_bounds(
                [a EXCEPT !.status = message])),
     err |-> FALSE]

\* persist on the outcome save_ok of save_board: the board is handed to
\* save_board; when that fails the `?` returns the error at once
persist(a, message, save_ok) ==
    LET called == [a EXCEPT !.saved = Append(@, a.board), !.saves = @ + 1] IN
    IF ~save_ok THEN [app |-> called, err |-> TRUE]
    ELSE [app |-> ensure_project_bounds(ensure_timeline_bounds(
                    [called EXCEPT !.status = message])),
          err |-> FALSE]

set_view(a, view) ==
    ensure_project_bounds(ensure_timeline_bounds(
        IF a.view # view
        THEN [a EXCEPT !.view = view, !.status = "Switched view"]
        ELSE a))

\* A key event: its code, the character of a Char code, and the modifiers
\* the handlers look at.
Char(c) == [code |-> "Char", ch |-> c, control |-> FALSE, alt |-> FALSE]

Code(c) == [code |-> c, ch |-> "", control |-> FALSE, alt |-> FALSE]

Ctrl(key) == [key EXCEPT !.control = TRUE]

Alt(key) == [key EXCEPT !.alt = TRUE]

is_char(key, c) == key.code = "Char" /\ key.ch = c

\* What a handler returns: Ok(false), Ok(true) or Err.
Ret(a, ret) == [app |-> a, ret |-> ret]

prev_column(a) ==
    IF a.selected_column > 0
    THEN [a EXCEPT !.selected_column = @ - 1, !.selected_note = 0]
    ELSE a

next_column(a) ==
    IF a.selected_column + 1 < Len(a.board.columns)
    THEN [a EXCEPT !.selected_column = @ + 1, !.selected_note = 0]
    ELSE a

prev_note(a) ==
    IF a.selected_note > 0 THEN [a EXCEPT !.selected_note = @ - 1] ELSE a

next_note(a) ==
    LET c == get(a.board.columns, a.selected_column) IN
    IF c # NoIndex /\ a.selected_note + 1 < Len(a.board.columns[c].note_ids)
    THEN [a EXCEPT !.selected_note = @ + 1]
    ELSE a

\* move_to_column with the clock reading t of the touch
move_to_column(a, target_idx, t) ==
    LET c == get(a.board.columns, a.selected_column)
        n == IF c = NoIndex THEN NoIndex
             ELSE get(a.board.columns[c].note_ids, a.selected_note)
        d == get(a.board.columns, target_idx)
    IN
    IF a.board.columns = <<>> \/ c = NoIndex \/ n = NoIndex THEN [app |-> a, ok |-> TRUE]
    ELSE IF d = NoIndex THEN [app |-> a, ok |-> FALSE]
    ELSE
    LET note_id == a.board.columns[c].note_ids[n]
        r == move_note(a.board, note_id, a.board.columns[d].id, t)
        carried == /\ r.result = "Ok"
                   /\ find_note_column_index(a.board, note_id) #
                        find_column_index(a.board, a.board.columns[d].id)
    IN
    IF r.result # "Ok" THEN [app |-> a, ok |-> FALSE]
    ELSE [app |-> [a EXCEPT
                    !.board = r.board,
                    !.now = IF carried THEN t ELSE @,
                    !.selected_column = target_idx,
                    !.selected_note =
                        saturating_sub(Len(r.board.columns[d].note_ids), 1)],
          ok |-> TRUE]

move_selected(a, delta, env) ==
    IF a.board.columns = <<>>
    THEN [app |-> [a EXCEPT !.status = "No columns to move between"], err |-> FALSE]
    ELSE IF current_note(a, env.order) = NoId
    THEN [app |-> [a EXCEPT !.status = "No note selected to move"], err |-> FALSE]
    ELSE
    LET max == saturating_sub(Len(a.board.columns), 1)
        target == IF a.selected_column + delta < 0 THEN 0
                  ELSE min(a.selected_column + delta, max)
    IN
    IF target = a.selected_column THEN [app |-> a, err |-> FALSE]
    ELSE With(move_to_column(a, target, env.t), LAMBDA m :
        IF ~m.ok THEN [app |-> [m.app EXCEPT !.status = "Move failed"], err |-> FALSE]
        ELSE persist(m.app, "Moved", env.save_ok))

\* NaiveDate::checked_add_signed: None outside the dates a NaiveDate can hold
MaxDate == 1

shift_calendar(a, days) ==
    LET new_date == a.timeline.calendar_cursor + days IN
    IF -MaxDate <= new_date /\ new_date <= MaxDate
    THEN [a EXCEPT !.timeline.calendar_cursor = new_date]
    ELSE a

timeline_next_focus(a) ==
    [a EXCEPT !.timeline.focus =
        CASE @ = "Unassigned" -> "Assigned"
          [] @ = "Assigned" -> "Calendar"
          [] @ = "Calendar" -> "Unassigned"]

timeline_prev_focus(a) ==
    [a EXCEPT !.timeline.focus =
        CASE @ = "Unassigned" -> "Calendar"
          [] @ = "Assigned" -> "Unassigned"
          [] @ = "Calendar" -> "Assigned"]

\* the rows of the calendar are weeks
DaysPerWeek == 7

handle_board_key(a, key, env) ==
    LET moved(delta) ==
            With(move_selected(a, delta, env), LAMBDA r :
                Ret(r.app, IF r.err THEN "err" ELSE "false"))
    IN
    CASE key.code = "Left" \/ is_char(key, "h") -> Ret(prev_column(a), "false")
      [] key.code = "Right" \/ is_char(key, "l") -> Ret(next_column(a), "false")
      [] key.code = "Up" \/ is_char(key, "k") -> Ret(prev_note(a), "false")
      [] key.code = "Down" \/ is_char(key, "j") -> Ret(next_note(a), "false")
      [] is_char(key, "m") \/ is_char(key, ">") -> moved(1)
      [] is_char(key, "b") \/ is_char(key, "<") -> moved(-1)
      [] OTHER -> Ret(a, "false")

handle_timeline_key(a, key, env) ==
    LET focus == a.timeline.focus
        handled ==
          CASE key.code = "Tab" -> timeline_next_focus(a)
            [] key.code = "BackTab" -> timeline_prev_focus(a)
            [] key.code = "Left" \/ is_char(key, "h") ->
                (CASE focus = "Calendar" -> shift_calendar(a, -1)
                  [] focus = "Assigned" -> timeline_prev_focus(a)
                  [] focus = "Unassigned" -> a)
            [] key.code = "Right" \/ is_char(key, "l") ->
                (CASE focus = "Calendar" -> shift_calendar(a, 1)
                  [] focus = "Unassigned" -> timeline_next_focus(a)
                  [] focus = "Assigned" -> timeline_next_focus(a))
            [] key.code = "Up" \/ is_char(key, "k") ->
                (CASE focus = "Unassigned" ->
                        [a EXCEPT !.timeline.unassigned_idx = IF @ > 0 THEN @ - 1 ELSE @]
                  [] focus = "Assigned" ->
                        [a EXCEPT !.timeline.assigned_idx = IF @ > 0 THEN @ - 1 ELSE @]
                  [] focus = "Calendar" -> shift_calendar(a, -DaysPerWeek))
            [] key.code = "Down" \/ is_char(key, "j") ->
                (CASE focus = "Unassigned" -> [a EXCEPT !.timeline.unassigned_idx = @ + 1]
                  [] focus = "Assigned" -> [a EXCEPT !.timeline.assigned_idx = @ + 1]
                  [] focus = "Calendar" -> shift_calendar(a, DaysPerWeek))
            [] key.code = "Enter" ->
                (IF focus # "Calendar" THEN a
                 ELSE With(first_due_on_cursor(a, env.order), LAMBDA idx :
                    IF idx >= 0
                    THEN [a EXCEPT !.timeline.assigned_idx = idx,
                                   !.timeline.focus = "Assigned",
                                   !.status = "Viewing tasks due"]
                    ELSE [a EXCEPT !.status = "No tasks due on that day"]))
            [] OTHER -> a
    IN Ret(ensure_timeline_bounds(handled), "false")

handle_project_key(a, key, env) ==
    LET focus == a.project.focus
        handled ==
          CASE key.code = "Tab" ->
                [a EXCEPT !.project.focus = IF @ = "Tags" THEN "Notes" ELSE "Tags"]
            [] key.code = "Left" \/ is_char(key, "h") -> [a EXCEPT !.project.focus = "Tags"]
            [] key.code = "Right" \/ is_char(key, "l") -> [a EXCEPT !.project.focus = "Notes"]
            [] key.code = "Up" \/ is_char(key, "k") ->
                IF focus = "Tags"
                THEN (IF a.project.tag_idx > 0
                      THEN [a EXCEPT !.project.tag_idx = @ - 1, !.project.note_idx = 0]
                      ELSE a)
                ELSE [a EXCEPT !.project.note_idx = IF @ > 0 THEN @ - 1 ELSE @]
            [] key.code = "Down" \/ is_char(key, "j") ->
                IF focus = "Tags"
                THEN [a EXCEPT !.project.tag_idx = @ + 1, !.project.note_idx = 0]
                ELSE [a EXCEPT !.project.note_idx = @ + 1]
            [] OTHER -> a
    IN Ret(ensure_project_bounds(handled), "false")

handle_normal_key(a, key, env) ==
    CASE is_char(key, "q") -> Ret(a, "true")
      [] is_char(key, "1") -> Ret(set_view(a, "Board"), "false")
      [] is_char(key, "2") -> Ret(set_view(a, "Timeline"), "false")
      [] is_char(key, "3") -> Ret(set_view(a, "Project"), "false")
      [] is_char(key, "n") ->
            Ret([a EXCEPT !.mode = "Creating", !.form = NoteForm_new,
                          !.status = "Creating new task"], "false")
      [] is_char(key, "e") ->
            Ret(With(current_note(a, env.order), LAMBDA id :
                    IF id # NoId
                    THEN [a EXCEPT !.mode = "Editing", !.note_id = id,
                                   !.form = NoteForm_from_note(a.board.notes[id]),
                                   !.status = "Editing"]
                    ELSE [a EXCEPT !.status = "No note selected to edit"]), "false")
      [] is_char(key, "d") ->
            Ret(With(current_note(a, env.order), LAMBDA id :
                    IF id # NoId
                    THEN [a EXCEPT !.mode = "ConfirmDelete", !.note_id = id,
                                   !.status = "Delete?"]
                    ELSE [a EXCEPT !.status = "No note selected to delete"]), "false")
      [] OTHER ->
            CASE a.view = "Board" -> handle_board_key(a, key, env)
              [] a.view = "Timeline" -> handle_timeline_key(a, key, env)
              [] a.view = "Project" -> handle_project_key(a, key, env)

\* create_note_from_form with the generated id and the clock reading of env;
\* ok is FALSE for Err, and an Err of persist leaves the note on the board
create_note_from_form(a, form, env) ==
    LET title == trim(form.title.value)
        column_id == current_column_id(a)
        tags == parse_tags(form.tags.value)
        due == parse_due_string(form.due.value)
        body == IF trim(form.body.value) = <<>> THEN None ELSE Some(form.body.value)
        note == Note_new(env.id, title, body, tags, due.due, env.t)
    IN
    IF title = <<>> \/ column_id = NoId \/ ~due.ok THEN [app |-> a, ok |-> FALSE]
    ELSE With(add_note(a.board, note, column_id), LAMBDA r :
        LET c == get(r.board.columns, a.selected_column)
            added == [a EXCEPT
                        !.board = r.board,
                        !.now = env.t,
                        !.selected_note =
                            IF c = NoIndex THEN 0
                            ELSE saturating_sub(Len(r.board.columns[c].note_ids), 1)]
        IN
        IF r.result # "Ok" THEN [app |-> [a EXCEPT !.now = env.t], ok |-> FALSE]
        ELSE With(persist(added, "Created note", env.save_ok), LAMBDA p :
                [app |-> p.app, ok |-> ~p.err]))

edit_note_from_form(a, note_id, form, env) ==
    LET title == trim(form.title.value)
        tags == parse_tags(form.tags.value)
        due == parse_due_string(form.due.value)
        body == IF trim(form.body.value) = <<>> THEN None ELSE Some(form.body.value)
    IN
    IF title = <<>> \/ ~due.ok THEN [app |-> a, ok |-> FALSE]
    ELSE With(update_note(a.board, note_id, Rewrite(title, body, tags, due.due), env.t),
              LAMBDA r :
        IF r.result # "Ok" THEN [app |-> a, ok |-> FALSE]
        ELSE With(persist([a EXCEPT !.board = r.board, !.now = env.t],
                          "Updated", env.save_ok), LAMBDA p :
                [app |-> p.app, ok |-> ~p.err]))

\* faulty variant: the form is closed whether or not the submit failed
try_submit_closes(a, action, note_id, form, env) ==
    With(IF action = "Create" THEN create_note_from_form(a, form, env)
         ELSE edit_note_from_form(a, note_id, form, env), LAMBDA r :
        IF r.ok THEN [app |-> r.app, close |-> TRUE]
        ELSE [app |-> [r.app EXCEPT !.status =
                        IF action = "Create" THEN "Could not create"
                        ELSE "Could not edit"],
              close |-> TRUE])

\* try_submit: close_form, and the status of a submit that failed
try_submit(a, action, note_id, form, env) ==
    With(IF action = "Create" THEN create_note_from_form(a, form, env)
         ELSE edit_note_from_form(a, note_id, form, env), LAMBDA r :
        IF r.ok THEN [app |-> r.app, close |-> TRUE]
        ELSE [app |-> [r.app EXCEPT !.status =
                        IF action = "Create" THEN "Could not create"
                        ELSE "Could not edit"],
              close |-> FALSE])

process_form_key(a, action, note_id, form, key, env) ==
    LET edited(fv) == [app |-> a, form |-> with_active_field(form, fv), close |-> FALSE]
    IN
    CASE key.code = "Esc" ->
            [app |-> [a EXCEPT !.status = "Canceled"], form |-> form, close |-> TRUE]
      [] key.code = "Tab" -> [app |-> a, form |-> next_field(form), close |-> FALSE]
      [] key.code = "BackTab" -> [app |-> a, form |-> prev_field(form), close |-> FALSE]
      [] key.code = "Left" -> edited(move_left(active_field(form)))
      [] key.code = "Right" -> edited(move_right(active_field(form)))
      [] key.code = "Up" -> edited(move_up(active_field(form)))
      [] key.code = "Down" -> edited(move_down(active_field(form)))
      [] key.code = "Enter" ->
            IF form.field = "Body" /\ ~key.control
            THEN edited(insert_char(active_field(form), "\n"))
            ELSE With(try_submit(a, action, note_id, form, env), LAMBDA submitted :
                    [app |-> submitted.app, form |-> form, close |-> submitted.close])
      [] key.code = "Backspace" -> edited(backspace(active_field(form)))
      [] key.code = "Char" ->
            IF ~(key.control \/ key.alt)
            THEN edited(insert_char(active_field(form), key.ch))
            ELSE [app |-> a, form |-> form, close |-> FALSE]
      [] OTHER -> [app |-> a, form |-> form, close |-> FALSE]

\* handle_form_key: process_form_key returns no Err, so neither does it; a
\* panic of the field editor unwinds out of the event loop
handle_form_key(a, key, env) ==
    With(process_form_key(a, IF a.mode = "Creating" THEN "Create" ELSE "Edit",
                          a.note_id, a.form, key, env), LAMBDA r :
        IF active_field(r.form).panic THEN Ret(a, "panic")
        ELSE IF r.close
        THEN Ret([r.app EXCEPT !.mode = "Normal", !.note_id = NoId, !.form = NoForm],
                 "false")
        ELSE Ret([r.app EXCEPT !.form = r.form], "false"))

\* faulty variant: every key that does not confirm cancels
handle_confirm_key_cancels(a, key, env) ==
    IF a.mode # "ConfirmDelete" THEN Ret(a, "false")
    ELSE IF is_char(key, "y") \/ key.code = "Enter"
    THEN With(delete_note(a.board, a.selected_note, a.note_id), LAMBDA r :
          IF r.result # "Ok"
          THEN Ret([a EXCEPT !.status = "Delete failed",
                             !.mode = "Normal", !.note_id = NoId], "false")
          ELSE With(persist([a EXCEPT !.board = r.board,
                                      !.selected_note = r.selected_note],
                            "Deleted", env.save_ok), LAMBDA p :
                IF p.err THEN Ret(p.app, "err")
                ELSE Ret([p.app EXCEPT !.mode = "Normal", !.note_id = NoId], "false")))
    ELSE Ret([a EXCEPT !.status = "Delete canceled",
                       !.mode = "Normal", !.note_id = NoId], "false")

handle_confirm_key(a, key, env) ==
    IF a.mode # "ConfirmDelete" THEN Ret(a, "false")
    ELSE
    CASE is_char(key, "y") \/ key.code = "Enter" ->
            With(delete_note(a.board, a.selected_note, a.note_id), LAMBDA r :
                IF r.result # "Ok"
                THEN Ret([a EXCEPT !.status = "Delete failed",
                                   !.mode = "Normal", !.note_id = NoId], "false")
                ELSE With(persist([a EXCEPT !.board = r.board,
                                            !.selected_note = r.selected_note],
                                  "Deleted", env.save_ok), LAMBDA p :
                    IF p.err THEN Ret(p.app, "err")
                    ELSE Ret([p.app EXCEPT !.mode = "Normal", !.note_id = NoId],
                             "false")))
      [] is_char(key, "n") \/ key.code = "Esc" ->
            Ret([a EXCEPT !.status = "Delete canceled",
                          !.mode = "Normal", !.note_id = NoId], "false")
      [] OTHER -> Ret(a, "false")

handle_key(a, key, env) ==
    CASE a.mode = "Normal" -> handle_normal_key(a, key, env)
      [] a.mode \in {"Creating", "Editing"} -> handle_form_key(a, key, env)
      [] a.mode = "ConfirmDelete" -> handle_confirm_key(a, key, env)

\* draw: the Timeline and the Project view clamp their indices when drawn
draw(a) ==
    CASE a.view = "Board" -> a
      [] a.view = "Timeline" -> ensure_timeline_bounds(a)
      [] a.view = "Project" -> ensure_project_bounds(a)

\* faulty variant: Ok(true) does not break the loop
turn_on(a, key, env) ==
    With(handle_key([draw(a) EXCEPT !.saved = <<>>], key, env), LAMBDA r :
        [r.app EXCEPT !.exit =
            CASE r.ret = "false" -> ""
              [] r.ret = "true" -> ""
              [] r.ret = "err" -> "error"
              [] r.ret = "panic" -> "panic"])

\* One turn of event_loop for a pressed key: draw, then handle_key; Ok(true)
\* breaks the loop and Err (or a panic) leaves it.  `saved` starts empty.
turn(a, key, env) ==
    With(handle_key([draw(a) EXCEPT !.saved = <<>>], key, env), LAMBDA r :
        [r.app EXCEPT !.exit =
            CASE r.ret = "false" -> ""
              [] r.ret = "true" -> "quit"
              [] r.ret = "err" -> "error"
              [] r.ret = "panic" -> "panic"])

\* TimelineState::new on the date of today
TimelineState_new(b, today) ==
    LET dues == {date_naive(b.notes[id].due[1]) :
                    id \in {i \in DOMAIN b.notes : b.notes[i].due # None}}
    IN [focus |-> "Assigned", unassigned_idx |-> 0, assigned_idx |-> 0,
        calendar_cursor |-> IF dues = {} THEN today ELSE Min(dues)]

ProjectState_new == [focus |-> "Tags", tag_idx |-> 0, note_idx |-> 0]

\* App::new at the instant t
App_new(b, t) ==
    [board |-> b, selected_column |-> 0, selected_note |-> 0, now |-> t,
     status |-> "Loaded board", mode |-> "Normal", note_id |-> NoId,
     form |-> NoForm, view |-> "Board",
     timeline |-> TimelineState_new(b, date_naive(t)),
     project |-> ProjectState_new, exit |-> "", saved |-> <<>>, saves |-> 0]

---------------------------------------------------------------------------
\* commands.rs: a command loads the board file, works on the board and
\* saves it.  An operator returns the board that is in the file afterwards,
\* the Result of the command (the error it returns by its kind) and the last
\* reading of the clock.  env supplies the readings t <= t2 of the clock,
\* the id that is generated and whether save_board succeeds; env.now is the
\* reading before the command.

\* parse_due: the option of a text, parsed as parse_due_string parses it
parse_due(input) ==
    IF input = None THEN [ok |-> TRUE, due |-> None]
    ELSE parse_due_string(input[1])

Returned(b, result, t) == [board |-> b, result |-> result, now |-> t]

add(b, title, body, tags, column, due, env) ==
    LET column_id == IF column # None THEN column
                     ELSE IF b.columns # <<>> THEN Some(b.columns[1].id)
                     ELSE None
        due_dt == parse_due(due)
    IN
    IF column_id = None THEN Returned(b, "NoColumns", env.now)
    ELSE IF ~due_dt.ok THEN Returned(b, "InvalidDate", env.now)
    ELSE With(add_note(b, Note_new(env.id, title, body, tags, due_dt.due, env.t),
                       column_id[1]), LAMBDA r :
        IF r.result # "Ok" THEN Returned(b, r.result, env.t)
        ELSE IF ~env.save_ok THEN Returned(b, "SaveFailed", env.t)
        ELSE Returned(r.board, "Ok", env.t))

commands_move_note(b, note_id, column_id, env) ==
    With(move_note(b, note_id, column_id, env.t), LAMBDA r :
        LET t == IF r.board # b THEN env.t ELSE env.now IN
        IF r.result # "Ok" THEN Returned(b, r.result, t)
        ELSE IF ~env.save_ok THEN Returned(b, "SaveFailed", t)
        ELSE Returned(r.board, "Ok", t))

\* faulty variant: a note that is not found is no error
edit_forgiving(b, note_id, title, body, tags, clear_tags, column, due, clear_due, env) ==
    LET due_dt == parse_due(due) IN
    IF ~due_dt.ok THEN Returned(b, "InvalidDate", env.now)
    ELSE With(update_note(b, note_id,
                          Patch(title, body, tags, clear_tags, due_dt.due, clear_due),
                          env.t), LAMBDA u :
        IF u.result # "Ok" THEN Returned(b, "Ok", env.now)
        ELSE With(IF column = None THEN [board |-> u.board, result |-> "Ok"]
                  ELSE move_note(u.board, note_id, column[1], env.t2), LAMBDA m :
            LET t == IF m.board # u.board THEN env.t2 ELSE env.t IN
            IF m.result # "Ok" THEN Returned(b, m.result, t)
            ELSE IF ~env.save_ok THEN Returned(b, "SaveFailed", t)
            ELSE Returned(m.board, "Ok", t)))

\* edit: NoteNotFound from update_note is mapped to Ok, and `found`, which
\* the closure sets, is then FALSE
edit(b, note_id, title, body, tags, clear_tags, column, due, clear_due, env) ==
    LET due_dt == parse_due(due) IN
    IF ~due_dt.ok THEN Returned(b, "InvalidDate", env.now)
    ELSE With(update_note(b, note_id,
                          Patch(title, body, tags, clear_tags, due_dt.due, clear_due),
                          env.t), LAMBDA u :
        IF u.result # "Ok" THEN Returned(b, "NotFound", env.now)
        ELSE With(IF column = None THEN [board |-> u.board, result |-> "Ok"]
                  ELSE move_note(u.board, note_id, column[1], env.t2), LAMBDA m :
            LET t == IF m.board # u.board THEN env.t2 ELSE env.t IN
            IF m.result # "Ok" THEN Returned(b, m.result, t)
            ELSE IF ~env.save_ok THEN Returned(b, "SaveFailed", t)
            ELSE Returned(m.board, "Ok", t)))

---------------------------------------------------------------------------
\* Boards a session starts from: load_board deserializes whatever the board
\* file holds, or falls back to default_named.

N0(id) == Note_new(id, T1, None, NoTags, None, 0)

Notes0(ids) == [k \in ids |-> N0(k)]

\* "doing" has wip_limit 1 and holds one note; a second column has the id
\* "doing" too
LoadedAtLimit ==
    [columns |-> << Column("todo", NoLimit, <<"n1">>),
                    Column("doing", 1, <<"n2">>),
                    Column("doing", NoLimit, <<>>) >>,
     notes |-> Notes0({"n1", "n2"})]

\* the limit of "todo" was lowered in the file below its content
LoadedOverLimit ==
    [columns |-> << Column("todo", 1, <<"n1", "n2">>),
                    Column("doing", NoLimit, <<>>),
                    Column("done", 2, <<>>) >>,
     notes |-> Notes0({"n1", "n2"})]

\* "n2" is in the note mapping and in no column
LoadedOrphan ==
    [columns |-> << Column("todo", NoLimit, <<"n1">>),
                    Column("doing", NoLimit, <<>>),
                    Column("done", 1, <<>>) >>,
     notes |-> Notes0({"n1", "n2"})]

\* three notes in one column
LoadedThree ==
    [columns |-> << Column("todo", NoLimit, <<"n1", "n2", "n3">>),
                    Column("doing", 1, <<>>),
                    Column("done", NoLimit, <<>>) >>,
     notes |-> Notes0({"n1", "n2", "n3"})]

InitBoards ==
    {default_named, LoadedAtLimit, LoadedOverLimit, LoadedOrphan}

---------------------------------------------------------------------------
\* Observers.

placed(b) ==
    LET RECURSIVE sum(_)
        sum(i) == IF i = 0 THEN 0 ELSE Len(b.columns[i].note_ids) + sum(i - 1)
    IN sum(Len(b.columns))

WithinWip(b) ==
    \A i \in 1..Len(b.columns) :
        b.columns[i].wip_limit # NoLimit
            => Len(b.columns[i].note_ids) <= b.columns[i].wip_limit

---------------------------------------------------------------------------
\* The state machine.

\* What Utc::now() can return: the instant of its last reading or a later one.
Clock == {t \in {now, now + 1} : t <= MaxTime}

\* NoteForm::new: an empty field
field0 == FieldValue_new(<<>>)

\* the fields of an App that are kept in `ui`
UiFields ==
    {"status", "mode", "note_id", "form", "view", "timeline", "project",
     "exit", "saved", "saves"}

ui_of(a) == [f \in UiFields |-> a[f]]

\* no command has run
out0 == [command |-> "", result |-> ""]

\* App::new on the default board
ui0 == ui_of(App_new(default_named, 0))

\* a pane before its first draw: offset 0 (App::new, TimelineState::new)
scroll0 == [selected |-> 0, offset |-> 0, viewport |-> 0, length |-> 0]

Init ==
    /\ board \in InitBoards
    /\ selected_column = 0
    /\ selected_note = 0
    /\ now = 0
    /\ wip_ok0 = WithinWip(board)
    /\ out = out0
    /\ field = field0
    /\ scroll = scroll0
    /\ ui = ui0

\* commands::add and App::create_note_from_form: Note::new stamps the note
\* with Utc::now(), then Board::add_note.
AddNote ==
    \E id \in GeneratedIds, column_id \in ColumnIds, t \in Clock :
        LET r == add_note(board, Note_new(id, T1, None, NoTags, None, t), column_id) IN
        /\ r.result = "Ok" => placed(board) < MaxPlaced
        /\ board' = r.board
        /\ now' = t
        /\ UNCHANGED <<selected_column, selected_note, wip_ok0, out, view_vars>>

\* commands::move_note and App::move_to_column: Board::move_note; the clock
\* is read only by the touch of a move that is carried out.
MoveNote ==
    \E id \in NoteIds, column_id \in ColumnIds, t \in Clock :
        LET r == move_note(board, id, column_id, t)
            src == find_note_column_index(board, id)
            dest == find_column_index(board, column_id)
            carried == r.result = "Ok" /\ src # dest IN
        /\ board' = r.board
        /\ now' = IF carried THEN t ELSE now
        /\ (~carried => t = now)
        /\ UNCHANGED <<selected_column, selected_note, wip_ok0, out, view_vars>>

\* commands::edit and App::edit_note_from_form: Board::update_note.
UpdateNote ==
    \E id \in NoteIds, f \in Mutators, t \in Clock :
        LET r == update_note(board, id, f, t) IN
        /\ board' = r.board
        /\ now' = IF r.result = "Ok" THEN t ELSE now
        /\ (r.result # "Ok" => t = now)
        /\ UNCHANGED <<selected_column, selected_note, wip_ok0, out, view_vars>>

\* App::handle_confirm_key, 'y' or Enter: App::delete_note of the pending
\* note id, which current_note took from the note mapping.
DeleteNote ==
    \E id \in DOMAIN board.notes :
        LET r == delete_note(board, selected_note, id) IN
        /\ board' = r.board
        /\ selected_note' = r.selected_note
        /\ UNCHANGED <<selected_column, now, wip_ok0, out, view_vars>>

Next == AddNote \/ MoveNote \/ UpdateNote \/ DeleteNote

Spec == Init /\ [][Next]_vars

\* The same operations on the board that holds three notes in one column.
InitThree ==
    /\ board = LoadedThree
    /\ selected_column = 0
    /\ selected_note = 0
    /\ now = 0
    /\ wip_ok0 = WithinWip(board)
    /\ out = out0
    /\ field = field0
    /\ scroll = scroll0
    /\ ui = ui0

SpecThree == InitThree /\ [][Next]_vars

---------------------------------------------------------------------------
\* The field editor: the keys process_form_key hands to the focused field.

\* insert_char inserts no character into a buffer of MaxChars characters.
MaxChars == 3

board_vars == <<board, selected_column, selected_note, now, wip_ok0, out>>

InitField ==
    /\ board = default_named
    /\ selected_column = 0
    /\ selected_note = 0
    /\ now = 0
    /\ wip_ok0 = TRUE
    /\ out = out0
    /\ field = field0
    /\ scroll = scroll0
    /\ ui = ui0

\* a panic ends the process: no key is handled after it
Edited(fv) ==
    /\ ~field.panic
    /\ field' = fv
    /\ UNCHANGED <<board_vars, scroll, ui>>

MoveLeft == Edited(move_left(field))

MoveRight == Edited(move_right(field))

MoveUp == Edited(move_up(field))

MoveDown == Edited(move_down(field))

Backspace == Edited(backspace(field))

InsertChar ==
    \E ch \in Chars :
        /\ Len(field.value) < MaxChars
        /\ Edited(insert_char(field, ch))

NextField ==
    MoveLeft \/ MoveRight \/ MoveUp \/ MoveDown \/ Backspace \/ InsertChar

SpecField == InitField /\ [][NextField]_vars

---------------------------------------------------------------------------
\* A list pane: it is drawn before every key, the selection moves, the
\* terminal is resized and the list grows and shrinks.

\* the list of the pane holds at most MaxLength rows
MaxLength == 4

\* the pane is at most MaxViewport rows high
MaxViewport == 3

InitScroll ==
    /\ board = default_named
    /\ selected_column = 0
    /\ selected_note = 0
    /\ now = 0
    /\ wip_ok0 = TRUE
    /\ out = out0
    /\ field = field0
    /\ scroll \in {[scroll0 EXCEPT !.viewport = v, !.length = n] :
                        v \in 0..MaxViewport, n \in 0..MaxLength}
    /\ ui = ui0

\* draw_timeline_column: the offset of the frame is adjust_offset of the
\* selection, clamped to the list, and of the offset of the frame before
Draw ==
    /\ scroll' = [scroll EXCEPT !.offset =
            adjust_offset(min(scroll.selected, saturating_sub(scroll.length, 1)),
                          scroll.offset, scroll.viewport, 1, scroll.length)]
    /\ UNCHANGED <<board_vars, field, ui>>

\* Up and Down in a list: the index moves by one and is clamped to the list
Select ==
    \E i \in {scroll.selected - 1, scroll.selected + 1} :
        /\ 0 <= i /\ i <= saturating_sub(scroll.length, 1)
        /\ scroll' = [scroll EXCEPT !.selected = i]
        /\ UNCHANGED <<board_vars, field, ui>>

\* the terminal is resized
Resize ==
    \E v \in 0..MaxViewport :
        /\ scroll' = [scroll EXCEPT !.viewport = v]
        /\ UNCHANGED <<board_vars, field, ui>>

\* a note enters or leaves the list; ensure_timeline_bounds clamps the index
\* and the offset to the list
Relist ==
    \E n \in {scroll.length - 1, scroll.length + 1} :
        /\ 0 <= n /\ n <= MaxLength
        /\ scroll' = [scroll EXCEPT
                !.length = n,
                !.selected = IF n = 0 THEN 0 ELSE min(@, saturating_sub(n, 1)),
                !.offset = IF n = 0 THEN 0 ELSE min(@, saturating_sub(n, 1))]
        /\ UNCHANGED <<board_vars, field, ui>>

NextScroll == Draw \/ Select \/ Resize \/ Relist

SpecScroll == InitScroll /\ [][NextScroll]_vars

---------------------------------------------------------------------------
\* The session: event_loop draws, reads a key and hands it to handle_key.

app ==
    [board |-> board, selected_column |-> selected_column,
     selected_note |-> selected_note, now |-> now,
     status |-> ui.status, mode |-> ui.mode, note_id |-> ui.note_id,
     form |-> ui.form, view |-> ui.view, timeline |-> ui.timeline,
     project |-> ui.project, exit |-> ui.exit, saved |-> ui.saved,
     saves |-> ui.saves]

\* the notes of the boards a session is started on
Dated(id, title, tags, due) == Note_new(id, title, None, tags, Some(due), 0)

\* two notes with a due minute in one column, the second without tags
LoadedDated ==
    [columns |-> << Column("todo", NoLimit, <<"n1", "n2">>),
                    Column("doing", 1, <<>>),
                    Column("done", NoLimit, <<>>) >>,
     notes |-> [k \in {"n1", "n2"} |->
                 IF k = "n1" THEN Dated("n1", T1, << <<"a">> >>, 1)
                 ELSE Dated("n2", T2, NoTags, 2)]]

TuiBoards == {LoadedDated, default_named}

\* rand::thread_rng in generate_id: a fresh id, or one that is taken
TuiGeneratedIds == {"n3", "n1"}

\* the boards of the model hold at most MaxNotes notes
MaxNotes == 3

\* the model follows a session up to its MaxSaves-th call of save_board
MaxSaves == 1

\* the event loop is running and the model follows it
Running == ui.exit = "" /\ ui.saves < MaxSaves

\* the fields of a form of the model hold at most MaxForm characters in all
MaxForm == 2

FormLen(form) ==
    Len(form.title.value) + Len(form.body.value) + Len(form.tags.value)
        + Len(form.due.value)

\* What the world supplies while a key is handled: the reading of the clock,
\* the id that is generated, whether save_board succeeds, and the order in
\* which the HashMap of the notes iterates.
AllEnvs(a) ==
    [t : {t \in {a.now, a.now + 1} : t <= MaxTime},
     id : TuiGeneratedIds,
     save_ok : BOOLEAN,
     order : Orders(a.board)]

\* The part of AllEnvs that the handler of `key` reads: the order of the
\* HashMap where a view other than the board picks the note, the clock and
\* save_board where the key can change the board, the id in a new form.
Envs(a, key) ==
    LET changing == key.code = "Enter" \/ \E c \in {"m", "b", "<", ">", "y"} : is_char(key, c)
    IN [t : IF changing THEN {t \in {a.now, a.now + 1} : t <= MaxTime} ELSE {a.now},
        id : IF changing /\ a.mode = "Creating" THEN TuiGeneratedIds ELSE {"n3"},
        save_ok : IF changing THEN BOOLEAN ELSE {TRUE},
        order : IF a.mode = "Normal" /\ a.view # "Board" THEN Orders(a.board)
                ELSE {some_order(a.board)}]

\* The keys of the claims.
AllKeys ==
    {Char(c) : c \in {"q", "1", "2", "3", "n", "e", "d", "y", "m", "b", "<", ">",
                      "h", "j", "k", "l", "a", " "}}
    \cup {Code(c) : c \in {"Left", "Right", "Up", "Down", "Tab", "BackTab",
                           "Enter", "Esc", "Backspace", "Other"}}
    \cup {Ctrl(Code("Enter")), Ctrl(Char("a")), Alt(Char("a"))}

\* the key submits the form that is open
SubmitKey(key) == key.code = "Enter" /\ (key.control \/ ui.form.field # "Body")

\* The keys the model presses in each mode.
NormalKeys ==
    {Char(c) : c \in {"q", "2", "3", "n", "e", "d", "m", "j"}} \cup {Code("Tab")}

FormKeys ==
    {Char("a"), Code("Tab"), Code("Backspace"), Ctrl(Code("Enter")), Code("Esc")}

ConfirmKeys == {Char("y"), Char("n"), Code("Other")}

InitTui ==
    /\ board \in TuiBoards
    /\ selected_column = 0
    /\ selected_note = 0
    /\ now = 0
    /\ wip_ok0 = WithinWip(board)
    /\ out = out0
    /\ field = field0
    /\ scroll = scroll0
    /\ ui = ui_of(App_new(board, 0))

\* the state after one turn of the loop
Turned(a) ==
    /\ board' = a.board
    /\ selected_column' = a.selected_column
    /\ selected_note' = a.selected_note
    /\ now' = a.now
    /\ ui' = ui_of(a)
    /\ UNCHANGED <<wip_ok0, out, field, scroll>>

\* event::poll times out, or the event is not the press of a key
Tick ==
    /\ Running
    /\ Turned(draw(app))

PressNormal ==
    /\ Running
    /\ ui.mode = "Normal"
    /\ \E key \in NormalKeys : \E env \in Envs(app, key) :
        /\ is_char(key, "2") \/ is_char(key, "3") \/ is_char(key, "n") => ui.view = "Board"
        /\ Turned(turn(app, key, env))

PressForm ==
    /\ Running
    /\ ui.mode \in {"Creating", "Editing"}
    /\ \E key \in FormKeys : \E env \in Envs(app, key) :
        /\ key.code = "Char" => ui.form.field = "Title" /\ FormLen(ui.form) < MaxForm
        /\ key.code = "Tab" => ui.mode = "Editing"
        /\ key.code = "Backspace" => ui.form.field = "Due"
        /\ key.code = "Enter" /\ ui.mode = "Creating" =>
                Cardinality(DOMAIN board.notes) < MaxNotes
        /\ Turned(turn(app, key, env))

PressConfirm ==
    /\ Running
    /\ ui.mode = "ConfirmDelete"
    /\ \E key \in ConfirmKeys : \E env \in Envs(app, key) : Turned(turn(app, key, env))

NextTui == Tick \/ PressNormal \/ PressForm \/ PressConfirm

SpecTui == InitTui /\ [][NextTui]_vars

---------------------------------------------------------------------------
\* The session at the form: the notes of the boards differ in the case of
\* their titles, and two columns of a board share an id.

\* two notes that are due in the same minute, third one without a due instant
LoadedCased ==
    [columns |-> << Column("todo", NoLimit, <<"n1", "n2">>),
                    Column("doing", 1, <<>>),
                    Column("done", NoLimit, <<>>) >>,
     notes |-> [k \in {"n1", "n2"} |->
                 IF k = "n1" THEN Dated("n1", <<"X">>, NoTags, 2)
                 ELSE Dated("n2", <<"a">>, NoTags, 2)]]

\* the second and the third column have the id "doing"
LoadedTwins ==
    [columns |-> << Column("todo", NoLimit, <<"n1">>),
                    Column("doing", NoLimit, <<"n2">>),
                    Column("doing", NoLimit, <<>>) >>,
     notes |-> [k \in {"n1", "n2"} |->
                 Note_new(k, IF k = "n1" THEN <<"X">> ELSE <<"a">>,
                          None, NoTags, None, 0)]]

FormBoards == {LoadedCased, LoadedTwins}

InitForm ==
    /\ board \in FormBoards
    /\ selected_column = 0
    /\ selected_note = 0
    /\ now = 0
    /\ wip_ok0 = WithinWip(board)
    /\ out = out0
    /\ field = field0
    /\ scroll = scroll0
    /\ ui = ui_of(App_new(board, 0))

\* 'n' or 'e' opens a form, 'l' selects the next column, '2' the Timeline
OpenKeys == {Char(c) : c \in {"n", "e", "l", "2"}}

TypeKeys == {Char("a"), Char(" "), Code("Backspace")}

FocusKeys == {Code("Tab"), Code("BackTab")}

SubmitKeys == {Code("Enter"), Ctrl(Code("Enter"))}

\* the model follows the session to its first call of save_board
AtForm == ui.exit = "" /\ ui.saves = 0

PressOpen ==
    /\ AtForm
    /\ ui.mode = "Normal"
    /\ \E key \in OpenKeys : \E env \in Envs(app, key) :
        /\ is_char(key, "l") => ui.view = "Board"
        /\ is_char(key, "2") => selected_column = 0
        /\ Turned(turn(app, key, env))

PressType ==
    /\ AtForm
    /\ ui.mode \in {"Creating", "Editing"}
    /\ \E key \in TypeKeys : \E env \in Envs(app, key) :
        /\ key.code = "Char" => FormLen(ui.form) < MaxForm
        /\ key.code = "Backspace" => ui.mode = "Editing"
        /\ Turned(turn(app, key, env))

PressFocus ==
    /\ AtForm
    /\ ui.mode \in {"Creating", "Editing"}
    /\ \E key \in FocusKeys : \E env \in Envs(app, key) :
        /\ key.code = "BackTab" => ui.form.field = "Title"
        /\ Turned(turn(app, key, env))

PressSubmit ==
    /\ AtForm
    /\ ui.mode \in {"Creating", "Editing"}
    /\ \E key \in SubmitKeys : \E env \in Envs(app, key) :
        /\ SubmitKey(key)
        /\ Turned(turn(app, key, env))

NextForm == PressOpen \/ PressType \/ PressFocus \/ PressSubmit

SpecForm == InitForm /\ [][NextForm]_vars

---------------------------------------------------------------------------
\* The session in its three views: the notes are browsed in the Timeline and
\* in the Project view and deleted from there.

\* n1 and n2 are due on the first and on the second day, n3 has no due
\* instant; the tags of the notes overlap, and n3 is in a column of its own
LoadedTagged ==
    [columns |-> << Column("todo", NoLimit, <<"n1", "n2">>),
                    Column("doing", NoLimit, <<"n3">>),
                    Column("done", NoLimit, <<>>) >>,
     notes |-> [k \in {"n1", "n2", "n3"} |->
                 CASE k = "n1" -> Dated("n1", T2, << <<"a">>, <<"b">> >>, 0)
                   [] k = "n2" -> Dated("n2", T1, << <<"b">>, <<"d">> >>,
                                        SecondsPerMinute * MinutesPerDay)
                   [] k = "n3" -> Note_new("n3", T1, None, << <<"d">> >>, None, 0)]]

\* one note
LoadedOne ==
    [columns |-> << Column("todo", NoLimit, <<"n1">>),
                    Column("doing", NoLimit, <<>>),
                    Column("done", NoLimit, <<>>) >>,
     notes |-> Notes0({"n1"})]

ViewBoards == {LoadedTagged, LoadedOrphan, LoadedOne}

InitViews ==
    /\ board \in ViewBoards
    /\ selected_column = 0
    /\ selected_note = 0
    /\ now = 0
    /\ wip_ok0 = WithinWip(board)
    /\ out = out0
    /\ field = field0
    /\ scroll = scroll0
    /\ ui = ui_of(App_new(board, 0))

\* the Timeline and the Project view are entered from the Board view
ViewKeys == {Char(c) : c \in {"2", "3"}}

BrowseKeys == {Code("Tab")} \cup {Char(c) : c \in {"h", "j", "k", "l"}}

AnswerKeys == {Char("y"), Char("n")}

\* the key is pressed
PressedInNormal(key) == \E env \in Envs(app, key) : Turned(turn(app, key, env))

\* the model follows the session in Normal mode to its first call of
\* save_board
Browsing == AtForm /\ ui.mode = "Normal"

PressView ==
    /\ Browsing
    /\ ui.view = "Board"
    /\ \E key \in ViewKeys : PressedInNormal(key)

\* in the Board view the model selects the next note of the first column
PressBrowse ==
    /\ Browsing
    /\ \E key \in BrowseKeys :
        /\ ui.view = "Board" => is_char(key, "j")
        /\ PressedInNormal(key)

\* Enter in the Timeline
PressJump ==
    /\ Browsing
    /\ ui.view = "Timeline"
    /\ PressedInNormal(Code("Enter"))

PressDelete ==
    /\ Browsing
    /\ PressedInNormal(Char("d"))

PressAnswer ==
    /\ AtForm
    /\ ui.mode = "ConfirmDelete"
    /\ \E key \in AnswerKeys : \E env \in Envs(app, key) : Turned(turn(app, key, env))

NextViews == PressView \/ PressBrowse \/ PressJump \/ PressDelete \/ PressAnswer

SpecViews == InitViews /\ [][NextViews]_vars

---------------------------------------------------------------------------
\* The commands of the command line, one after the other on the board file.

\* what the world supplies to a command
CliEnvs ==
    {e \in [now : {now}, t : Clock, t2 : Clock, id : GeneratedIds, save_ok : BOOLEAN] :
        e.t <= e.t2}

\* the titles, columns and due texts given on the command line
CliTitles == {<<>>, T1}

CliColumns == {None, Some("nowhere")}

CliDues == {None, Some(<<"a">>)}

\* the commands of the model read the clock once
Once(env) == env.t2 = env.t

Ran(command, r) ==
    /\ board' = r.board
    /\ now' = r.now
    /\ out' = [command |-> command, result |-> r.result]
    /\ UNCHANGED <<selected_column, selected_note, wip_ok0, view_vars>>

CmdAdd ==
    \E title \in CliTitles, column \in CliColumns, due \in CliDues, env \in CliEnvs :
        LET r == add(board, title, None, NoTags, column, due, env) IN
        /\ r.result = "Ok" => placed(board) < MaxPlaced
        /\ r.result # "Ok" => env.save_ok /\ env.t = now
        /\ column # None => due = None
        /\ Once(env)
        /\ Ran("add", r)

CmdMove ==
    \E note_id \in NoteIds, column_id \in {"doing", "nowhere"}, env \in CliEnvs :
        LET r == commands_move_note(board, note_id, column_id, env) IN
        /\ r.board = board => env.save_ok /\ env.t = now
        /\ r.board # board => note_id = "n1"
        /\ Once(env)
        /\ Ran("move", r)

CmdEdit ==
    \E note_id \in NoteIds, title \in {None, Some(<<>>)},
       column \in CliColumns, env \in CliEnvs :
        LET r == edit(board, note_id, title, None, NoTags, FALSE, column, None,
                      FALSE, env) IN
        /\ r.board = board => env.save_ok /\ env.t = now
        /\ column # None => title = None
        /\ Once(env)
        /\ Ran("edit", r)

InitCli ==
    /\ board = default_named
    /\ selected_column = 0
    /\ selected_note = 0
    /\ now = 0
    /\ wip_ok0 = WithinWip(board)
    /\ out = out0
    /\ field = field0
    /\ scroll = scroll0
    /\ ui = ui0

NextCli == CmdAdd \/ CmdMove \/ CmdEdit

SpecCli == InitCli /\ [][NextCli]_vars

---------------------------------------------------------------------------
\* Vocabulary of the properties, stated on the board alone.

ColumnCount(b) == Len(b.columns)

Ids(b, i) == b.columns[i].note_ids

Occurrences(b, id) ==
    LET RECURSIVE count(_)
        count(i) ==
            IF i = 0 THEN 0
            ELSE Len(SelectSeq(Ids(b, i), LAMBDA x : x = id)) + count(i - 1)
    IN count(ColumnCount(b))

\* the first column whose id is column_id, NoIndex when there is none
FirstNamed(b, column_id) ==
    IF \E i \in 1..ColumnCount(b) : b.columns[i].id = column_id
    THEN CHOOSE i \in 1..ColumnCount(b) :
            /\ b.columns[i].id = column_id
            /\ \A j \in 1..(i - 1) : b.columns[j].id # column_id
    ELSE NoIndex

\* the first column that lists id, NoIndex when no column does
FirstHolding(b, id) ==
    IF \E i \in 1..ColumnCount(b) : \E k \in 1..Len(Ids(b, i)) : Ids(b, i)[k] = id
    THEN CHOOSE i \in 1..ColumnCount(b) :
            /\ \E k \in 1..Len(Ids(b, i)) : Ids(b, i)[k] = id
            /\ \A j \in 1..(i - 1) : \A k \in 1..Len(Ids(b, j)) : Ids(b, j)[k] # id
    ELSE NoIndex

\* column i has a wip_limit and holds at least that many notes
AtLimit(b, i) ==
    /\ b.columns[i].wip_limit # NoLimit
    /\ Len(Ids(b, i)) >= b.columns[i].wip_limit

Without(s, id) == SelectSeq(s, LAMBDA x : x # id)

\* the two boards differ at most in the note_ids of the columns in `cols`
SameColumnsBut(b, c, cols) ==
    /\ ColumnCount(c) = ColumnCount(b)
    /\ \A i \in 1..ColumnCount(b) :
        /\ c.columns[i].id = b.columns[i].id
        /\ c.columns[i].wip_limit = b.columns[i].wip_limit
        /\ i \notin cols => Ids(c, i) = Ids(b, i)

\* the two note mappings differ at most at the keys in `keys`
SameNotesBut(b, c, keys) ==
    /\ (DOMAIN c.notes) \ keys = (DOMAIN b.notes) \ keys
    /\ \A k \in (DOMAIN b.notes) \ keys : c.notes[k] = b.notes[k]

Unchanged(b, r, result) == r.result = result /\ r.board = b

\* some operation that reads the clock has run since the board was loaded
Worked == now > 0 /\ board \notin InitBoards \cup {LoadedThree}

---------------------------------------------------------------------------
\* C1: every id listed in a column is a key of the note mapping, after any
\* sequence of add_note, move_note and delete_note from a board where it holds.
C1_ReferentialIntegrity ==
    \A i \in 1..ColumnCount(board) :
        \A k \in 1..Len(Ids(board, i)) : Ids(board, i)[k] \in DOMAIN board.notes

\* C2: a note id is listed at most once over all the columns, after any
\* sequence of add_note, move_note and delete_note from a board where it is.
C2_ExclusivePlacement ==
    \A id \in NoteIds : Occurrences(board, id) <= 1

---------------------------------------------------------------------------
\* C3: a board loaded with every limited column within its limit keeps every
\* such column within its limit; a column at or above its limit is changed
\* by no add_note aimed at it and by no move_note into it, and no operation
\* makes it longer.
C3_WipBound ==
    /\ wip_ok0 => WithinWip(board)
    /\ \A i \in 1..ColumnCount(board) : AtLimit(board, i) =>
        \A id \in NoteIds, column_id \in ColumnIds, t \in Clock :
            LET a == add_note(board, Note_new(id, T1, None, NoTags, None, t), column_id).board
                m == move_note(board, id, column_id, t).board
            IN  /\ Len(Ids(a, i)) <= Len(Ids(board, i))
                /\ Len(Ids(m, i)) <= Len(Ids(board, i))
                /\ FirstNamed(board, column_id) = i =>
                    Ids(a, i) = Ids(board, i) /\ Ids(m, i) = Ids(board, i)

\* a limited column was filled up to its limit after the load
C3_Witness ==
    /\ Worked /\ wip_ok0
    /\ \E i \in 1..ColumnCount(board) :
        /\ AtLimit(board, i)
        /\ Len(Ids(board, i)) = board.columns[i].wip_limit
        /\ \A b \in InitBoards : ColumnCount(b) < i \/ Ids(b, i) # Ids(board, i)

---------------------------------------------------------------------------
\* C4: add_note aimed at a column that is at or above its wip_limit returns
\* WipLimitReached and changes nothing: neither the column nor the mapping.
C4_AddAtLimit ==
    \A id \in NoteIds, title \in Titles, column_id \in ColumnIds, t \in Clock :
        LET i == FirstNamed(board, column_id) IN
        (i # NoIndex /\ AtLimit(board, i)) =>
            Unchanged(board, add_note(board, Note_new(id, title, None, NoTags, None, t), column_id),
                      "WipLimitReached")

\* a column at its limit whose id a fresh note could be aimed at
C4_Witness ==
    /\ Worked
    /\ \E id \in NoteIds, column_id \in ColumnIds :
        /\ id \notin DOMAIN board.notes
        /\ FirstNamed(board, column_id) # NoIndex
        /\ AtLimit(board, FirstNamed(board, column_id))
        /\ add_note(board, Note_new(id, T1, None, NoTags, None, now), column_id).result = "WipLimitReached"

---------------------------------------------------------------------------
\* C5: add_note returns ColumnNotFound and changes nothing when no column has
\* the id; when it succeeds the note is stored under its id, the id is the
\* last element of the first column with that id, and nothing else changes.
C5_AddNote ==
    \A id \in NoteIds, title \in Titles, column_id \in ColumnIds, t \in Clock :
        LET note == Note_new(id, title, None, NoTags, None, t)
            r == add_note(board, note, column_id)
            i == FirstNamed(board, column_id)
        IN  /\ i = NoIndex => Unchanged(board, r, "ColumnNotFound")
            /\ r.result \in {"Ok", "ColumnNotFound", "WipLimitReached"}
            /\ r.result = "Ok" =>
                /\ i # NoIndex
                /\ id \in DOMAIN r.board.notes
                /\ r.board.notes[id] = note
                /\ SameNotesBut(board, r.board, {id})
                /\ Ids(r.board, i) = Append(Ids(board, i), id)
                /\ SameColumnsBut(board, r.board, {i})

\* a column id held by two columns, the first of which accepts a note
C5_Witness ==
    /\ Worked
    /\ \E column_id \in ColumnIds :
        /\ \E i, j \in 1..ColumnCount(board) :
            i < j /\ board.columns[i].id = column_id /\ board.columns[j].id = column_id
        /\ add_note(board, Note_new("n1", T1, None, NoTags, None, now), column_id).result = "Ok"

---------------------------------------------------------------------------
\* C6: move_note fails with NoteNotFound, else ColumnNotFound, else
\* NoteLocationMissing, else (for another column than the source)
\* WipLimitReached, in this order; a failing move_note changes nothing.
C6_Expected(id, column_id) ==
    IF id \notin DOMAIN board.notes THEN "NoteNotFound"
    ELSE IF FirstNamed(board, column_id) = NoIndex THEN "ColumnNotFound"
    ELSE IF FirstHolding(board, id) = NoIndex THEN "NoteLocationMissing"
    ELSE IF /\ FirstHolding(board, id) # FirstNamed(board, column_id)
            /\ AtLimit(board, FirstNamed(board, column_id))
         THEN "WipLimitReached"
    ELSE "Ok"

C6_MoveFailures ==
    \A id \in NoteIds, column_id \in ColumnIds, t \in Clock :
        LET r == move_note(board, id, column_id, t) IN
        /\ r.result = C6_Expected(id, column_id)
        /\ r.result # "Ok" => r.board = board

\* a board on which each of the four failures can be had
C6_Witness ==
    /\ Worked
    /\ \A e \in {"NoteNotFound", "ColumnNotFound", "NoteLocationMissing",
                 "WipLimitReached"} :
        \E id \in NoteIds, column_id \in ColumnIds :
            move_note(board, id, column_id, now).result = e

---------------------------------------------------------------------------
\* C7: move_note to the column that holds the note succeeds, changes nothing
\* and checks no limit, so that a second application finds the same board.
C7_MoveSameColumn ==
    \A id \in NoteIds, column_id \in ColumnIds, t \in Clock :
        (/\ id \in DOMAIN board.notes
         /\ FirstHolding(board, id) # NoIndex
         /\ FirstHolding(board, id) = FirstNamed(board, column_id)) =>
            LET r == move_note(board, id, column_id, t) IN
            /\ Unchanged(board, r, "Ok")
            /\ \A t2 \in Clock : Unchanged(board, move_note(r.board, id, column_id, t2), "Ok")

\* a note in a column that was filled up to its limit, moved to that column
C7_Witness ==
    /\ Worked
    /\ \E id \in DOMAIN board.notes, column_id \in ColumnIds :
        /\ FirstHolding(board, id) # NoIndex
        /\ FirstHolding(board, id) = FirstNamed(board, column_id)
        /\ AtLimit(board, FirstHolding(board, id))
        /\ move_note(board, id, column_id, now).result = "Ok"

---------------------------------------------------------------------------
\* C8: a move_note carried out to another column takes the id out of the
\* source, makes it the last element of the destination, keeps the order of
\* the other ids of both, and changes no other column and no other note.
C8_MoveAppends ==
    \A id \in NoteIds, column_id \in ColumnIds, t \in Clock :
        LET r == move_note(board, id, column_id, t)
            src == FirstHolding(board, id)
            dest == FirstNamed(board, column_id)
        IN (r.result = "Ok" /\ src # dest) =>
            /\ Ids(r.board, src) = Without(Ids(board, src), id)
            /\ Ids(r.board, dest) = Append(Ids(board, dest), id)
            /\ SameColumnsBut(board, r.board, {src, dest})
            /\ SameNotesBut(board, r.board, {id})
            /\ id \in DOMAIN r.board.notes

\* a note can be moved out from between two others into another column
C8_Witness ==
    Worked /\ \E id \in DOMAIN board.notes, column_id \in ColumnIds :
        LET src == FirstHolding(board, id)
            dest == FirstNamed(board, column_id)
        IN  /\ src # NoIndex /\ dest # NoIndex /\ src # dest
            /\ Len(Ids(board, src)) >= 3
            /\ Ids(board, src)[2] = id
            /\ Ids(board, src)[1] # id /\ Ids(board, src)[3] # id
            /\ Ids(board, src)[1] # Ids(board, src)[3]
            /\ move_note(board, id, column_id, now).result = "Ok"

---------------------------------------------------------------------------
\* The instants a second reading of the clock can return after a reading of t.
After(t) == {u \in {t, t + 1} : u <= MaxTime}

\* move_note(id, column_id) at t1 followed by move_note(id, A) at t2, A the
\* id of the column that held the note
RoundTrip(id, column_id, t1, t2) ==
    LET first == move_note(board, id, column_id, t1)
        home == board.columns[FirstHolding(board, id)].id
    IN [first |-> first, second |-> move_note(first.board, id, home, t2)]

\* note id is in column A, column_id names another column B, and B has room
C9_Case(id, column_id) ==
    /\ id \in DOMAIN board.notes
    /\ FirstHolding(board, id) # NoIndex
    /\ FirstNamed(board, column_id) # NoIndex
    /\ FirstNamed(board, column_id) # FirstHolding(board, id)
    /\ ~AtLimit(board, FirstNamed(board, column_id))

\* the id of A names A, and A has room for the note once the note has left
C9_CanReturn(id) ==
    LET src == FirstHolding(board, id) IN
    /\ FirstNamed(board, board.columns[src].id) = src
    /\ \/ board.columns[src].wip_limit = NoLimit
       \/ Len(Without(Ids(board, src), id)) < board.columns[src].wip_limit

\* C9 as claimed: for a note in column A and another column B with room, the
\* move to B and the move back to A both succeed, the note is in A again and
\* its updated_at is strictly later than before the first move.
C9_RoundTripStrictlyLater ==
    \A id \in NoteIds, column_id \in ColumnIds :
        C9_Case(id, column_id) =>
            \A t1 \in Clock : \A t2 \in After(t1) :
                LET rt == RoundTrip(id, column_id, t1, t2) IN
                /\ rt.first.result = "Ok"
                /\ rt.second.result = "Ok"
                /\ FirstHolding(rt.second.board, id) = FirstHolding(board, id)
                /\ rt.second.board.notes[id].updated_at > board.notes[id].updated_at

\* C9 as amended: when moreover the id of A names A and A has room for the
\* note once it has left, both moves succeed, the note is the last element of
\* A, and its updated_at is the instant the second move read from the clock,
\* which is not earlier than the value before the first move.
C9_RoundTrip ==
    \A id \in NoteIds, column_id \in ColumnIds :
        (C9_Case(id, column_id) /\ C9_CanReturn(id)) =>
            \A t1 \in Clock : \A t2 \in After(t1) :
                LET rt == RoundTrip(id, column_id, t1, t2)
                    src == FirstHolding(board, id)
                IN  /\ rt.first.result = "Ok"
                    /\ rt.second.result = "Ok"
                    /\ FirstHolding(rt.second.board, id) = src
                    /\ Ids(rt.second.board, src) = Append(Without(Ids(board, src), id), id)
                    /\ rt.second.board.notes[id].updated_at = t2
                    /\ t2 >= board.notes[id].updated_at

\* a note stamped at the present instant goes to another column and back to
\* its limited column within that instant
C9_Witness ==
    /\ Worked
    /\ \E id \in NoteIds, column_id \in ColumnIds :
        /\ C9_Case(id, column_id) /\ C9_CanReturn(id)
        /\ board.columns[FirstHolding(board, id)].wip_limit # NoLimit
        /\ board.notes[id].updated_at = now
        /\ RoundTrip(id, column_id, now, now).second.result = "Ok"

---------------------------------------------------------------------------
\* C10: update_note returns NoteNotFound and changes nothing for an id that
\* is not in the mapping; otherwise it applies the closure to that note and
\* sets its updated_at to the instant read, whatever the closure did; no
\* column and no other note changes.
C10_UpdateNote ==
    \A id \in NoteIds, f \in Mutators, t \in Clock :
        LET r == update_note(board, id, f, t) IN
        IF id \notin DOMAIN board.notes THEN Unchanged(board, r, "NoteNotFound")
        ELSE
            /\ r.result = "Ok"
            /\ r.board.columns = board.columns
            /\ SameNotesBut(board, r.board, {id})
            /\ id \in DOMAIN r.board.notes
            /\ r.board.notes[id].updated_at = t
            /\ r.board.notes[id].id = board.notes[id].id
            /\ r.board.notes[id].created_at = board.notes[id].created_at
            /\ r.board.notes[id].body = board.notes[id].body
            /\ r.board.notes[id].tags = board.notes[id].tags
            /\ r.board.notes[id].due = board.notes[id].due
            /\ r.board.notes[id].title =
                    IF f = Retitle THEN T2 ELSE board.notes[id].title

\* a note that update_note has retitled and stamped after its creation, and
\* an id that is not in the mapping
C10_Witness ==
    /\ Worked
    /\ \E id \in DOMAIN board.notes :
        /\ board.notes[id].title = T2
        /\ board.notes[id].created_at < board.notes[id].updated_at
        /\ update_note(board, id, Noop, now).result = "Ok"
    /\ \E id \in NoteIds : update_note(board, id, Noop, now).result = "NoteNotFound"

---------------------------------------------------------------------------
\* C11: the key under which a note is stored is its id, and no operation
\* changes the id or the created_at of a note that is on the board before
\* and after it.
C11_IdentityFixed ==
    /\ [](\A id \in DOMAIN board.notes : board.notes[id].id = id)
    /\ [][\A id \in (DOMAIN board.notes) \cap (DOMAIN board'.notes) :
            /\ board'.notes[id].id = board.notes[id].id
            /\ board'.notes[id].created_at = board.notes[id].created_at]_vars

---------------------------------------------------------------------------
\* C15: for a selection inside the list, a pane of at least one row, margin
\* 1 and every incoming offset, adjust_offset returns an offset of a window
\* that shows the selection and does not run past the end of the list; it
\* returns 0 for a pane of no rows and for an empty list.
C15_SelectionVisible ==
    \A selected \in 0..MaxLength, current_offset \in 0..(MaxLength + 1) :
        LET offset == adjust_offset(selected, current_offset, scroll.viewport,
                                    1, scroll.length)
        IN  /\ (scroll.viewport = 0 \/ scroll.length = 0) => offset = 0
            /\ (scroll.viewport > 0 /\ selected < scroll.length) =>
                /\ offset <= selected
                /\ selected <= offset + scroll.viewport - 1
                /\ 0 <= offset
                /\ offset <= saturating_sub(scroll.length, scroll.viewport)

\* a frame was drawn with the window scrolled down to the last row of a
\* list longer than the pane
C15_Witness ==
    /\ scroll.viewport > 0
    /\ scroll.length > scroll.viewport
    /\ scroll.selected = scroll.length - 1
    /\ scroll.offset > 0
    /\ scroll.offset = adjust_offset(scroll.selected, scroll.offset,
                                     scroll.viewport, 1, scroll.length)

---------------------------------------------------------------------------
\* C16: insert_char of any character followed by backspace gives back the
\* buffer and the cursor, for every buffer and every cursor on a character
\* boundary.
C16_InsertBackspace ==
    \A ch \in Chars :
        LET fv == backspace(insert_char(field, ch)) IN
        /\ ~fv.panic
        /\ fv.value = field.value
        /\ fv.cursor = field.cursor

\* the cursor stands inside a buffer between characters of several bytes
C16_Witness ==
    /\ 0 < field.cursor /\ field.cursor < len(field.value)
    /\ \E k \in 1..Len(field.value) : field.value[k] = "€"
    /\ \E k \in 1..Len(field.value) : field.value[k] = "é"
    /\ backspace(insert_char(field, "\n")) = field

---------------------------------------------------------------------------
\* C17: after any sequence of move_left, move_right, move_up, move_down,
\* backspace and insert_char on a new field, the cursor is between 0 and the
\* length of the buffer in bytes, on a character boundary, and no operation
\* has panicked.
C17_CursorValid ==
    /\ ~field.panic
    /\ 0 <= field.cursor
    /\ field.cursor <= len(field.value)
    /\ is_char_boundary(field.value, field.cursor)

\* the cursor is on the second line behind a character of several bytes,
\* where move_up and then move_down put it again
C17_Witness ==
    /\ ~field.panic
    /\ Len(field.value) >= 3
    /\ field.value[2] = "\n"
    /\ len_utf8(field.value[3]) > 1
    /\ field.cursor = byte_of(field.value, 4)
    /\ move_up(field).cursor = byte_of(field.value, 2)
    /\ move_down(move_up(field)).cursor = field.cursor

---------------------------------------------------------------------------
\* Vocabulary of the properties of a session.

\* the application as the key handler finds it: the frame has been drawn
Drawn == draw(app)

\* the application after the turn of the loop that handles `key`
Handled(key, env) == turn(app, key, env)

MoveKey(key) == \E c \in {"m", ">", "b", "<"} : is_char(key, c)

ConfirmKey(key) == is_char(key, "y") \/ key.code = "Enter"

CancelKey(key) == is_char(key, "n") \/ key.code = "Esc"

\* the key asks for a command that changes the board
Command(key) ==
    \/ ui.mode = "Normal" /\ ui.view = "Board" /\ MoveKey(key)
    \/ ui.mode \in {"Creating", "Editing"} /\ SubmitKey(key)
    \/ ui.mode = "ConfirmDelete" /\ ConfirmKey(key)

\* the indices of the three views are within their lists
BoardInBounds(a) ==
    LET c == get(a.board.columns, a.selected_column)
        length == IF c = NoIndex THEN 0 ELSE Len(a.board.columns[c].note_ids)
    IN IF length = 0 THEN a.selected_note = 0 ELSE a.selected_note < length

TimelineInBounds(a) ==
    LET lists == timeline_lists(a.board, some_order(a.board))
        within(idx, list) == IF Len(list) = 0 THEN idx = 0 ELSE idx < Len(list)
    IN /\ within(a.timeline.unassigned_idx, lists.unassigned)
       /\ within(a.timeline.assigned_idx, lists.assigned)

ProjectInBounds(a) ==
    LET tags == project_tags(a.board, some_order(a.board)) IN
    IF Len(tags) = 0
    THEN a.project = [focus |-> "Tags", tag_idx |-> 0, note_idx |-> 0]
    ELSE /\ a.project.tag_idx < Len(tags)
         /\ LET notes == tags[a.project.tag_idx + 1].notes IN
            IF Len(notes) = 0
            THEN a.project.note_idx = 0 /\ a.project.focus = "Tags"
            ELSE a.project.note_idx < Len(notes)

InBounds(a) == BoardInBounds(a) /\ TimelineInBounds(a) /\ ProjectInBounds(a)

\* C12: when save_board fails while a key is handled, the session keeps
\* running, the status tells of the failure, the board keeps the change that
\* was to be saved, and the mode is Normal or the form is still open.
C12_SaveFailureNotFatal ==
    ui.exit = "" =>
        \A key \in AllKeys : \A env \in Envs(app, key) :
            LET r == Handled(key, env) IN
            (~env.save_ok /\ r.saved # <<>>) =>
                /\ r.exit = ""
                /\ r.status \in {"Could not create", "Could not edit",
                                 "Move failed", "Delete failed"}
                /\ r.board = r.saved[Len(r.saved)]
                /\ r.mode = "Normal" \/ (r.mode = ui.mode /\ r.form = ui.form)

C14_IndicesInBounds ==
    ui.exit = "" =>
        \A key \in AllKeys : \A env \in Envs(app, key) :
            LET r == Handled(key, env) IN
            ( /\ r.exit = ""
              /\ r.board # board \/ r.saved # <<>> \/ r.view # ui.view ) => InBounds(r)

\* C18: in Normal mode 'n' opens an empty form; 'e' opens the form of the
\* note the view selects and 'd' asks to confirm its deletion, exactly when
\* the view selects a note, which it does not while the Timeline is focused
\* on the calendar or the Project view on its tags; 'q' ends the session; the
\* board is left as it is.
C18_OutOfNormal ==
    (ui.exit = "" /\ ui.mode = "Normal") =>
        \A key \in {k \in AllKeys : \E c \in {"n", "e", "d", "q"} : is_char(k, c)} :
        \A env \in Envs(app, key) :
            LET r == Handled(key, env)
                id == current_note(Drawn, env.order)
                none == \/ ui.view = "Timeline" /\ ui.timeline.focus = "Calendar"
                        \/ ui.view = "Project" /\ ui.project.focus = "Tags"
            IN
            /\ r.board = board /\ r.saved = <<>>
            /\ none => id = NoId
            /\ is_char(key, "n") =>
                    r.mode = "Creating" /\ r.form = NoteForm_new /\ r.exit = ""
            /\ is_char(key, "e") =>
                    /\ r.exit = ""
                    /\ id # NoId =>
                        /\ r.mode = "Editing" /\ r.note_id = id
                        /\ id \in DOMAIN board.notes
                        /\ r.form = NoteForm_from_note(board.notes[id])
                    /\ id = NoId => r.mode = "Normal" /\ r.form = NoForm
            /\ is_char(key, "d") =>
                    /\ r.exit = ""
                    /\ id # NoId => r.mode = "ConfirmDelete" /\ r.note_id = id
                    /\ id = NoId => r.mode = "Normal"
            /\ is_char(key, "q") => r.exit = "quit"

\* 'e' in the Project view has opened the form of the note of a tag
C18_Witness ==
    /\ ui.mode = "Editing"
    /\ ui.view = "Project"
    /\ ui.project.focus = "Notes"
    /\ ui.note_id \in DOMAIN board.notes
    /\ ui.form = NoteForm_from_note(board.notes[ui.note_id])

\* C19: Esc in a form, and 'n' or Esc while a deletion waits for its
\* confirmation, return to Normal mode and leave the board, the view and the
\* selections as they are, with no call of save_board; a key that neither
\* confirms nor cancels leaves the pending deletion as it is.
C19_Cancel ==
    (ui.exit = "" /\ ui.mode # "Normal") =>
        \A key \in AllKeys : \A env \in Envs(app, key) :
            LET r == Handled(key, env)
                canceled ==
                    \/ ui.mode \in {"Creating", "Editing"} /\ key.code = "Esc"
                    \/ ui.mode = "ConfirmDelete" /\ CancelKey(key)
                same(fields) == \A f \in fields : r[f] = Drawn[f]
            IN
            /\ canceled =>
                /\ r.mode = "Normal" /\ r.exit = ""
                /\ r.saved = <<>>
                /\ same({"board", "view", "selected_column", "selected_note",
                         "timeline", "project"})
            /\ (ui.mode = "ConfirmDelete" /\ ~CancelKey(key) /\ ~ConfirmKey(key)) =>
                /\ r.mode = "ConfirmDelete" /\ r.note_id = ui.note_id
                /\ r.exit = ""

\* a deletion has been canceled
C19_Witness ==
    /\ ui.status = "Delete canceled"
    /\ ui.mode = "Normal"
    /\ ui.saved = <<>>
    /\ DOMAIN board.notes # {}

\* C20: 'y' or Enter while the deletion of a note that is in a column waits
\* for its confirmation removes the id from its column and from the note
\* mapping, leaves the other notes and the order of the other ids as they
\* are, hands the board to save_board and returns to Normal mode.
C20_ConfirmedDelete ==
    (ui.exit = "" /\ ui.mode = "ConfirmDelete"
        /\ find_note_column_index(board, ui.note_id) # NoIndex) =>
        \A key \in {k \in AllKeys : ConfirmKey(k)} : \A env \in Envs(app, key) :
            LET r == Handled(key, env)
                owner == find_note_column_index(board, ui.note_id)
            IN
            /\ ui.note_id \notin DOMAIN r.board.notes
            /\ \A id \in DOMAIN board.notes \ {ui.note_id} :
                    id \in DOMAIN r.board.notes /\ r.board.notes[id] = board.notes[id]
            /\ DOMAIN r.board.notes \subseteq DOMAIN board.notes
            /\ r.board.columns[owner].note_ids =
                    retain(board.columns[owner].note_ids, ui.note_id)
            /\ \A i \in DOMAIN board.columns \ {owner} :
                    r.board.columns[i] = board.columns[i]
            /\ r.saved = <<r.board>>
            /\ r.mode = "Normal" /\ r.exit = ""

---------------------------------------------------------------------------
\* Vocabulary of the properties of a form.

FormMode == ui.exit = "" /\ ui.mode \in {"Creating", "Editing"}

\* the keys that submit the form that is open
Submits == {k \in AllKeys : SubmitKey(k)}

BlankTitle(form) == trim(form.title.value) = <<>>

\* the text is the sixteen characters of a minute, and nothing else
IsDueText(text) == Len(text) = 1 /\ IsDateText(text[1])

\* the submit was rejected: mode, pending note, form and board are as they
\* were, save_board was not called and the status tells of the failure
Rejected(r) ==
    /\ r.exit = ""
    /\ r.mode = ui.mode /\ r.note_id = ui.note_id
    /\ r.form = ui.form
    /\ r.board = board
    /\ r.saved = <<>>
    /\ r.status = IF ui.mode = "Creating" THEN "Could not create" ELSE "Could not edit"

\* C21 as it is stated: a submit whose title is blank, or whose due field is
\* not empty and is not the text of a minute, is rejected in Creating and in
\* Editing mode, and the form, the board and the file are left as they are.
C21_RejectedAsStated ==
    FormMode =>
        \A key \in Submits : \A env \in Envs(app, key) :
            ( \/ BlankTitle(ui.form)
              \/ ui.form.due.value # <<>> /\ ~IsDueText(ui.form.due.value) )
                => Rejected(Handled(key, env))

\* C21: a submit whose title is blank, or whose due field is not blank and,
\* trimmed, is not the text of a minute, is rejected in Creating and in
\* Editing mode: the mode and the form stay as they are with their buffers,
\* cursors and focused field, the board is unchanged and save_board is not
\* called.
C21_Rejected ==
    FormMode =>
        \A key \in Submits : \A env \in Envs(app, key) :
            ( \/ BlankTitle(ui.form)
              \/ trim(ui.form.due.value) # <<>> /\ ~IsDueText(trim(ui.form.due.value)) )
                => Rejected(Handled(key, env))

\* a submit with a title and a due field that is no minute has been rejected
C21_Witness ==
    /\ ui.mode = "Creating"
    /\ ui.status = "Could not create"
    /\ ~BlankTitle(ui.form)
    /\ trim(ui.form.due.value) # <<>> /\ ~IsDueText(trim(ui.form.due.value))
    /\ ui.saved = <<>>

---------------------------------------------------------------------------
\* Vocabulary of the moves in the Board view.

BoardMode == ui.exit = "" /\ ui.mode = "Normal" /\ ui.view = "Board"

Forward(key) == is_char(key, "m") \/ is_char(key, ">")

Back(key) == is_char(key, "b") \/ is_char(key, "<")

Moves == {k \in AllKeys : MoveKey(k)}

\* the 0-based index of the column next to the selected one
Adjacent(key) == IF Forward(key) THEN selected_column + 1 ELSE selected_column - 1

\* C22: on any board, a forward or back action of the Board view that
\* succeeds takes the selected note out of the selected column and puts it
\* into the column next to it, and the selection then designates that note
\* in its new column.
C22_MoveFollows ==
    BoardMode =>
        \A key \in Moves : \A env \in Envs(app, key) :
            LET r == Handled(key, env)
                id == current_board_note(app)
            IN r.status = "Moved" /\ r.saved # <<>> =>
                /\ id # NoId
                /\ r.selected_column = Adjacent(key)
                /\ ~any(Ids(r.board, selected_column + 1), id)
                /\ any(Ids(r.board, Adjacent(key) + 1), id)
                /\ current_board_note(r) = id

\* the action has no column to move the note to, or no note to move
AtEdge(key) ==
    \/ Forward(key) /\ selected_column + 1 >= Len(board.columns)
    \/ Back(key) /\ selected_column = 0
    \/ current_board_note(app) = NoId

\* the status messages with which move_selected reports that it did nothing
MoveReports == {"No columns to move between", "No note selected to move"}

\* C23: a forward action on the last column, a back action on the first
\* column, and either action while no note is selected, leave the board and
\* the selection as they are, call save_board not at all, and set a status
\* message that reports it.
C23_MoveAtLimits ==
    BoardMode =>
        \A key \in Moves : \A env \in Envs(app, key) :
            LET r == Handled(key, env) IN
            AtEdge(key) =>
                /\ r.exit = ""
                /\ r.board = board
                /\ r.selected_column = selected_column
                /\ r.selected_note = selected_note
                /\ r.saved = <<>>
                /\ r.status \in MoveReports

---------------------------------------------------------------------------
\* C24: on any board and in any view, a submit in Creating mode that
\* succeeds adds exactly one note, under an id that was not on the board, and
\* appends that id to the column at the selected column index of the Board
\* view; no other column changes.
C24_CreateCommit ==
    (ui.exit = "" /\ ui.mode = "Creating") =>
        \A key \in Submits : \A env \in Envs(app, key) :
            LET r == Handled(key, env) IN
            (r.exit = "" /\ r.mode = "Normal") =>
                /\ env.id \notin DOMAIN board.notes
                /\ DOMAIN r.board.notes = DOMAIN board.notes \cup {env.id}
                /\ \A id \in DOMAIN board.notes : r.board.notes[id] = board.notes[id]
                /\ Len(r.board.columns) = Len(board.columns)
                /\ selected_column < Len(board.columns)
                /\ \A i \in 1..Len(board.columns) :
                        r.board.columns[i] =
                            IF i = selected_column + 1
                            THEN [board.columns[i] EXCEPT !.note_ids = Append(@, env.id)]
                            ELSE board.columns[i]

---------------------------------------------------------------------------
\* Vocabulary of the lists of the Timeline view.

\* the number of times id is listed in list
Listed(list, id) == Cardinality({k \in 1..Len(list) : list[k] = id})

\* list is in the order of the instants at(id), notes of one instant in the
\* order of their titles, the case of the letters set aside
InOrder(list, at(_)) ==
    \A k \in 1..(Len(list) - 1) :
        \/ at(list[k]) < at(list[k + 1])
        \/ /\ at(list[k]) = at(list[k + 1])
           /\ ~text_less(to_lowercase(board.notes[list[k + 1]].title),
                         to_lowercase(board.notes[list[k]].title))

---------------------------------------------------------------------------
\* Vocabulary of the properties of the commands.

Blank(title) == trim(title) = <<>>

\* what can be given on the command line
GivenTitles == {<<>>, <<" ">>, T1}

GivenColumns == {None, Some("todo"), Some("doing"), Some("nowhere")}

\* C26: every note that a command or the form has created or edited has a
\* title that is not blank, and an add or an edit with a blank title fails
\* and leaves the board as it is.
C26_TitleRequired ==
    /\ \A id \in DOMAIN board.notes : ~Blank(board.notes[id].title)
    /\ \A title \in {t \in GivenTitles : Blank(t)}, env \in CliEnvs :
        /\ LET r == add(board, title, None, NoTags, None, None, env) IN
                r.result # "Ok" /\ r.board = board
        /\ \A note_id \in NoteIds :
            LET r == edit(board, note_id, Some(title), None, NoTags, FALSE, None,
                          None, FALSE, env) IN
                r.result # "Ok" /\ r.board = board

\* what add, move and edit do with an error of the data model, and what
\* `missing` is the Result of an edit of an id that is not on the board
ErrorsReturned(missing) ==
    \A note_id \in NoteIds, column \in GivenColumns, env \in CliEnvs :
        /\ LET m == add_note(board, Note_new(env.id, T1, None, NoTags, None, env.t),
                             IF column = None THEN "todo" ELSE column[1])
               r == add(board, T1, None, NoTags, column, None, env)
           IN m.result # "Ok" => r.result = m.result /\ r.board = board
        /\ column # None =>
            LET m == move_note(board, note_id, column[1], env.t)
                r == commands_move_note(board, note_id, column[1], env)
            IN m.result # "Ok" => r.result = m.result /\ r.board = board
        /\ LET r == edit(board, note_id, Some(T2), None, NoTags, FALSE, column,
                         None, FALSE, env)
           IN IF note_id \notin DOMAIN board.notes
              THEN r.result = missing /\ r.board = board /\ r.now = now
              ELSE column # None =>
                    LET u == update_note(board, note_id,
                                Patch(Some(T2), None, NoTags, FALSE, None, FALSE), env.t)
                        m == move_note(u.board, note_id, column[1], env.t2)
                    IN m.result # "Ok" => r.result = m.result /\ r.board = board

\* C27 as it is stated: add, move and edit return the error of the data
\* model and leave the board file as it is, except that an edit of an id
\* that is not on the board succeeds and changes nothing.
C27_EditOfMissingSucceeds == ErrorsReturned("Ok")

\* C27: add, move and edit return the error of the data model and leave the
\* board file as it is; an edit of an id that is not on the board fails with
\* the error of the command, note not found, and changes nothing.
C27_ErrorsReturned == ErrorsReturned("NotFound")

\* an edit of an id that is not on the board has failed, on a board that
\* holds a note
C27_Witness ==
    /\ out = [command |-> "edit", result |-> "NotFound"]
    /\ DOMAIN board.notes # {}
    /\ DOMAIN board.notes # NoteIds

---------------------------------------------------------------------------
\* Vocabulary of the focus of the form.

\* the fixed order of the fields
FocusOrder == <<"Title", "Body", "Tags", "Due">>

PlaceOf(f) == CHOOSE i \in 1..Len(FocusOrder) : FocusOrder[i] = f

FieldAfter(f) == FocusOrder[(PlaceOf(f) % Len(FocusOrder)) + 1]

FieldBefore(f) == FocusOrder[((PlaceOf(f) + Len(FocusOrder) - 2) % Len(FocusOrder)) + 1]

Tab == Code("Tab")

\* the terminal reports Shift-Tab as the key BackTab
ShiftTab == Code("BackTab")

\* the session after the key, pressed at the session a
Pressed(a, key) == turn(a, key, CHOOSE env \in Envs(a, key) : TRUE)

\* C28: in the form, Tab moves the focus to the next field of the order
\* Title, Body, Tags, Due and from Due to Title, Shift-Tab to the field
\* before and from Title to Due; Tab and then Shift-Tab, Shift-Tab and then
\* Tab, and four Tabs leave the focus where it was; the form stays open and
\* the buffer and the cursor of every field are as they were.
C28_FocusCycle ==
    FormMode =>
        /\ \A key \in {Tab, ShiftTab} : \A env \in Envs(app, key) :
                LET r == Handled(key, env) IN
                /\ r.exit = "" /\ r.mode = ui.mode /\ r.note_id = ui.note_id
                /\ r.form = [ui.form EXCEPT !.field =
                                IF key = Tab THEN FieldAfter(@) ELSE FieldBefore(@)]
                /\ r.board = board /\ r.saved = <<>>
        /\ With(Pressed(app, Tab), LAMBDA r : Pressed(r, ShiftTab).form = ui.form)
        /\ With(Pressed(app, ShiftTab), LAMBDA r : Pressed(r, Tab).form = ui.form)
        /\ With(Pressed(app, Tab), LAMBDA r1 :
            With(Pressed(r1, Tab), LAMBDA r2 :
            With(Pressed(r2, Tab), LAMBDA r3 :
                /\ Cardinality({ui.form.field, r1.form.field, r2.form.field,
                                r3.form.field}) = Len(FocusOrder)
                /\ Pressed(r3, Tab).form = ui.form)))

\* the focus has come to the last field of a form that holds text
C28_Witness ==
    /\ ui.exit = ""
    /\ ui.mode = "Editing"
    /\ ui.form.field = "Due"
    /\ ui.form.title.value # <<>>
    /\ ui.form.title.cursor = Len(ui.form.title.value)

---------------------------------------------------------------------------
\* Vocabulary of the scroller.

\* x, brought into lo..hi
Clamp(x, lo, hi) == IF x < lo THEN lo ELSE IF x > hi THEN hi ELSE x

\* the offset of the scroller as it is described, with `margin` rows kept
\* between the selection and the ends of the window
Scrolled(selected, offset, viewport, margin, length) ==
    LET last == IF length > viewport THEN length - viewport ELSE 0
        clamped == Clamp(offset, 0, last)
        moved ==
            IF selected < clamped + margin
            THEN (IF selected > margin THEN selected - margin ELSE 0)
            ELSE IF selected + margin > clamped + viewport - 1
                 THEN selected + margin - (viewport - 1)
                 ELSE clamped
    IN Clamp(moved, 0, last)

\* the rows that draw may select in the list of the pane
Rows == 0..saturating_sub(scroll.length, 1)

\* the offsets that the frame before may have left
Offsets == 0..(MaxLength + 1)

\* C29 as it is stated: in a pane of one row or more the offset of the next
\* frame is that of the scroller with a margin of 1 row.
C29_MarginOfOne ==
    scroll.viewport > 0 =>
        \A selected \in Rows, current_offset \in Offsets :
            adjust_offset(selected, current_offset, scroll.viewport, 1, scroll.length)
                = Scrolled(selected, current_offset, scroll.viewport, 1, scroll.length)

\* C29: in a pane of one row or more the offset of the next frame is that of
\* the scroller with a margin of 1 row, and of no row in a pane of one row:
\* the offset of the frame before is clamped to 0..length - viewport, a
\* selection within the margin of the top pulls the window up to
\* selected - margin, at least 0, a selection within the margin of the bottom
\* pushes it down until selected + margin is the last row of the window, any
\* other selection keeps the clamped offset, and the result is clamped again.
C29_Scroller ==
    scroll.viewport > 0 =>
        \A selected \in Rows, current_offset \in Offsets :
            adjust_offset(selected, current_offset, scroll.viewport, 1, scroll.length)
                = Scrolled(selected, current_offset, scroll.viewport,
                           min(1, scroll.viewport - 1), scroll.length)

\* a pane of one row has been drawn with its selection below the first row
C29_Witness ==
    /\ scroll.viewport = 1
    /\ scroll.length > 2
    /\ scroll.selected > 0
    /\ scroll.offset = scroll.selected
    /\ scroll.offset = adjust_offset(scroll.selected, scroll.offset, 1, 1, scroll.length)

---------------------------------------------------------------------------
\* Vocabulary of the lines of a buffer, counted in characters.

\* the places of the line breaks of the text
Breaks(text) == {k \in 1..Len(text) : text[k] = "\n"}

\* the number of characters before line i, the lines counted from 0
LineStart(text, i) ==
    IF i = 0 THEN 0
    ELSE CHOOSE k \in Breaks(text) : Cardinality({j \in Breaks(text) : j <= k}) = i

\* the number of characters of line i
LineLength(text, i) ==
    (IF i < Cardinality(Breaks(text)) THEN LineStart(text, i + 1) - 1 ELSE Len(text))
        - LineStart(text, i)

\* the line of the cursor that stands behind p characters
LineOf(text, p) == Cardinality({k \in Breaks(text) : k <= p})

\* the cursor, in bytes, at column c of line i, or at the end of a shorter line
CursorAt(text, i, c) ==
    byte_of(text, LineStart(text, i) + min(c, LineLength(text, i)) + 1)

\* C30: with the cursor at column c of line i of the buffer, the lines being
\* what the line breaks separate and the columns counted in characters,
\* move_up puts the cursor at column min(c, length of line i - 1) of line
\* i - 1 and move_down at column min(c, length of line i + 1) of line i + 1;
\* on the first line move_up, and on the last line move_down, leaves buffer
\* and cursor as they are; neither changes the buffer.
C30_LineMoves ==
    ~field.panic =>
        LET text == field.value
            p == chars_before(text, field.cursor)
            i == LineOf(text, p)
            c == p - LineStart(text, i)
        IN
        /\ move_up(field) =
                IF i = 0 THEN field
                ELSE [field EXCEPT !.cursor = CursorAt(text, i - 1, c)]
        /\ move_down(field) =
                IF i = Cardinality(Breaks(text)) THEN field
                ELSE [field EXCEPT !.cursor = CursorAt(text, i + 1, c)]

\* the cursor is at the end of the second and last line, at column 1, under
\* a first line of one character of several bytes, to whose end move_up
\* takes it
C30_Witness ==
    /\ ~field.panic
    /\ Len(field.value) = 3
    /\ Breaks(field.value) = {2}
    /\ len_utf8(field.value[1]) > 1
    /\ field.cursor = len(field.value)
    /\ move_up(field).cursor = byte_of(field.value, 2)
    /\ move_down(field) = field

---------------------------------------------------------------------------
\* Vocabulary of the Timeline.

\* Normal mode in the Timeline
TimelineMode == ui.exit = "" /\ ui.mode = "Normal" /\ ui.view = "Timeline"

Enters == {k \in AllKeys : k.code = "Enter"}

\* the places in the assigned list of the notes that are due on the day
DueOn(list, day) ==
    {k \in 1..Len(list) : board.notes[list[k]].due # None
                            /\ date_naive(board.notes[list[k]].due[1]) = day}

\* C31: Enter in the Timeline with the focus on the calendar sets the focus
\* to Assigned and assigned_idx to the index of the first note of the
\* assigned list that is due on the day of the calendar cursor; when no
\* assigned note is due on that day it leaves the focus, the indices and the
\* cursor as they are and reports that nothing was found; with any other
\* focus Enter changes nothing.
C31_CalendarJump ==
    TimelineMode =>
        \A key \in Enters : \A env \in Envs(app, key) :
            LET r == Handled(key, env)
                hits == DueOn(timeline_lists(board, env.order).assigned,
                              ui.timeline.calendar_cursor)
            IN
            /\ r.exit = "" /\ r.mode = "Normal" /\ r.view = "Timeline"
            /\ r.board = board /\ r.saved = <<>>
            /\ r.selected_column = selected_column /\ r.selected_note = selected_note
            /\ r.project = ui.project
            /\ IF ui.timeline.focus # "Calendar"
               THEN r.timeline = ui.timeline /\ r.status = ui.status
               ELSE IF hits = {}
               THEN r.timeline = ui.timeline /\ r.status = "No tasks due on that day"
               ELSE /\ r.timeline = [ui.timeline EXCEPT !.focus = "Assigned",
                                                        !.assigned_idx = Min(hits) - 1]
                    /\ r.status = "Viewing tasks due"

\* Enter on the second day of the calendar has selected the second note of
\* the assigned list
C31_Witness ==
    /\ TimelineMode
    /\ ui.status = "Viewing tasks due"
    /\ ui.timeline.focus = "Assigned"
    /\ ui.timeline.calendar_cursor = 1
    /\ ui.timeline.assigned_idx = 1

---------------------------------------------------------------------------
\* Vocabulary of the Project view.

\* the tag that is selected in the tag list of the session a, <<>> for none
SelectedTag(a) ==
    LET tags == ascending(bucket_keys(a.board)) IN
    IF get(tags, a.project.tag_idx) = NoIndex THEN <<>>
    ELSE tags[get(tags, a.project.tag_idx)]

\* the key moves the selection of the list that has the focus
UpOrDown(key) ==
    key.code \in {"Up", "Down"} \/ is_char(key, "j") \/ is_char(key, "k")

\* C32: when the tag that is selected in the tag list is another after a key
\* than before it, the note index is 0 after the key; a key that moves the
\* selection in the note list of the Project view leaves the selected tag as
\* it is.
C32_TagChangeResets ==
    ui.exit = "" =>
        \A key \in AllKeys : \A env \in Envs(app, key) :
            LET r == Handled(key, env) IN
            /\ SelectedTag(r) # SelectedTag(Drawn) => r.project.note_idx = 0
            /\ ( /\ ui.mode = "Normal" /\ ui.view = "Project"
                 /\ ui.project.focus = "Notes" /\ UpOrDown(key) )
                    => SelectedTag(r) = SelectedTag(Drawn)

---------------------------------------------------------------------------
\* Vocabulary of the edit form.

\* the edit form is open on a note of the board and no field was touched
Untouched ==
    /\ ui.exit = ""
    /\ ui.mode = "Editing"
    /\ ui.note_id \in DOMAIN board.notes
    /\ ui.form = [NoteForm_from_note(board.notes[ui.note_id])
                    EXCEPT !.field = ui.form.field]

\* C33: a submit of the edit form of which no field was touched leaves the
\* title, the body, the tags and the due instant of the note as they were.
C33_EditRoundTrip ==
    Untouched =>
        \A key \in Submits : \A env \in Envs(app, key) :
            LET r == Handled(key, env)
                old == board.notes[ui.note_id]
            IN  /\ ui.note_id \in DOMAIN r.board.notes
                /\ r.board.notes[ui.note_id].title = old.title
                /\ r.board.notes[ui.note_id].body = old.body
                /\ r.board.notes[ui.note_id].tags = old.tags
                /\ r.board.notes[ui.note_id].due = old.due

---------------------------------------------------------------------------
\* C34: in a pane of one row or more, adjust_offset on the offset that it
\* returned, with the same selected row of the list, the same viewport and
\* the same length, returns that offset again: a frame that is drawn again
\* does not move the window.
C34_RedrawKeepsWindow ==
    (scroll.viewport > 0 /\ scroll.length > 0) =>
        \A selected \in Rows, current_offset \in Offsets :
            LET offset == adjust_offset(selected, current_offset, scroll.viewport,
                                        1, scroll.length)
            IN adjust_offset(selected, offset, scroll.viewport, 1, scroll.length) = offset

---------------------------------------------------------------------------
\* C35: a submit of the create form that leaves the form open leaves the
\* board as it was, whether save_board succeeds or not, and a submit that
\* closes the form adds at most one note: no session of the create form adds
\* more than one note.
C35_OneNotePerForm ==
    (ui.exit = "" /\ ui.mode = "Creating") =>
        \A key \in Submits : \A env \in Envs(app, key) :
            LET r == Handled(key, env) IN
            IF r.mode = "Creating" THEN r.board = board
            ELSE /\ Cardinality(DOMAIN r.board.notes) <= Cardinality(DOMAIN board.notes) + 1
                 /\ placed(r.board) <= placed(board) + 1

---------------------------------------------------------------------------
\* Vocabulary of the delete that is to be confirmed.

ConfirmMode == ui.exit = "" /\ ui.mode = "ConfirmDelete"

Confirms == {k \in AllKeys : ConfirmKey(k)}

\* C36: the confirmed delete, from the Timeline or the Project view, of a
\* note that is not in the column that is selected in the Board view leaves
\* selected_column and selected_note as they are.
C36_SelectionKept ==
    ( /\ ConfirmMode
      /\ ui.view \in {"Timeline", "Project"}
      /\ find_note_column_index(board, ui.note_id) # selected_column + 1 ) =>
        \A key \in Confirms : \A env \in Envs(app, key) :
            LET r == Handled(key, env) IN
            /\ r.selected_column = selected_column
            /\ r.selected_note = selected_note

---------------------------------------------------------------------------
\* C37: in every state of the session in which the mode is Editing or
\* ConfirmDelete, the note id that the mode carries is a key of the note
\* mapping of the board.
C37_ModeCarriesNote ==
    ui.mode \in {"Editing", "ConfirmDelete"} => ui.note_id \in DOMAIN board.notes

---------------------------------------------------------------------------
\* Vocabulary of the modes.

\* the characters that are commands in Normal mode
CommandChars == {"q", "n", "e", "d", "1", "2", "3"}

\* the key types the character of a command, without Ctrl or Alt
Typed(key) == key.code = "Char" /\ key.ch \in CommandChars /\ ~key.control /\ ~key.alt

\* the key asks for a view
ViewKey(key) == \E c \in {"1", "2", "3"} : is_char(key, c)

\* C38: in the modes Creating, Editing and ConfirmDelete no key changes the
\* view, the focus of the Timeline, the focus of the Project view or the
\* calendar cursor, and no key ends the session; a character of a command
\* that is typed into a form is inserted into the field that has the focus;
\* in Normal mode the view changes only by a key that asks for a view.
C38_ModalIsolation ==
    ui.exit = "" =>
        \A key \in AllKeys : \A env \in Envs(app, key) :
            LET r == Handled(key, env) IN
            /\ ui.mode # "Normal" =>
                /\ r.exit = ""
                /\ r.view = ui.view
                /\ r.timeline.focus = ui.timeline.focus
                /\ r.timeline.calendar_cursor = ui.timeline.calendar_cursor
                /\ r.project.focus = ui.project.focus
            /\ (ui.mode \in {"Creating", "Editing"} /\ Typed(key)) =>
                /\ r.mode = ui.mode
                /\ r.form = with_active_field(ui.form,
                                insert_char(active_field(ui.form), key.ch))
            /\ (ui.mode = "Normal" /\ r.view # ui.view) => ViewKey(key)

---------------------------------------------------------------------------
\* C39: the confirmed delete of the note that was selected, in whatever view,
\* leaves the id of the note out of the note mapping and out of every column,
\* also when the note was in the note mapping and in no column.
C39_DeleteCompletes ==
    (ConfirmMode /\ ui.note_id \in DOMAIN board.notes) =>
        \A key \in Confirms : \A env \in Envs(app, key) :
            LET r == Handled(key, env) IN
            /\ ui.note_id \notin DOMAIN r.board.notes
            /\ \A i \in 1..ColumnCount(r.board) : ~any(Ids(r.board, i), ui.note_id)

---------------------------------------------------------------------------
\* Vocabulary of the end of the session.

Esc == Code("Esc")

Quit == Char("q")

\* C40: in every state of the running session Esc and then 'q' end the
\* session: Esc changes nothing in Normal mode and leads to Normal mode from
\* Creating, Editing and ConfirmDelete, the board stays as it is and is not
\* saved, and 'q' then ends the event loop.
C40_EscThenQuit ==
    ui.exit = "" =>
        \A env \in Envs(app, Esc) :
            With(Handled(Esc, env), LAMBDA r :
                /\ r.exit = "" /\ r.mode = "Normal"
                /\ r.board = board /\ r.saved = <<>> /\ r.saves = ui.saves
                /\ ui.mode = "Normal" => r = [Drawn EXCEPT !.saved = <<>>]
                /\ \A env2 \in Envs(r, Quit) :
                        With(turn(r, Quit, env2), LAMBDA q :
                            q.exit = "quit" /\ q.board = board /\ q.saved = <<>>))

\* a form was left with Esc and the session was then ended with 'q'
C40_Witness ==
    /\ ui.exit = "quit"
    /\ ui.mode = "Normal"
    /\ ui.status = "Canceled"

=============================================================================
